---- MODULE Spec2Model ----
(***************************************************************************)
(* A model of the simulation kernel of edgin_around: entities and their    *)
(* features, the Task kinds of tasks.py, the entities' handle_event, the   *)
(* State operations the tasks call, and the Job scheduler that drives them.*)
(*                                                                         *)
(* Units: time is counted in hundredths of a second and lengths in         *)
(* hundredths of a length unit, so every duration and distance of the      *)
(* source is an integer (1.0 s = 100, 0.01 s = 1, distance 1.0 = 100).     *)
(* Positions lie on one great circle and are integers along it; a bearing  *)
(* is +1 or -1 along that circle.                                          *)
(***************************************************************************)
EXTENDS Integers, Sequences, FiniteSets, TLC

\* Python's None, for optional ids, positions and feature values.
None == -9

(***************************************************************************)
(* Bounds of the model.                                                    *)
(***************************************************************************)
\* Number of pocket slots of an inventory.
NumPockets == 3
\* Largest stack quantity drawn for the hand stack in the merge scenarios.
MaxHandQty == 12
\* Largest stack quantity drawn for the pocket stack in the merge scenarios.
MaxPocketQty == 12

(***************************************************************************)
(* Program constants.                                                      *)
(***************************************************************************)
TIMEOUT == 2000
PICK_DURATION == 100
MAX_DISTANCE == 100
SWAP_DURATION == 1
DIE_DURATION == 1
CRAFT_DURATION == 100
WALK_SPEED == 1
WALK_DURATION == 100
MOVE_SPEED == 1
SPRUCE_START_HEALTH == 200
AXE_CHOP_DAMAGE == 100
STACK_START_SIZE == 1
\* Capacity of one stack: 12 + 12 merge to 20 and 4.
MAX_STACK == 20

Hands == {"LEFT", "RIGHT"}
Pockets == 1..NumPockets

(***************************************************************************)
(* Entities and their features.                                            *)
(***************************************************************************)
Kinds == {"rocks", "gold", "log", "axe", "spruce", "warrior", "pirate"}

\* ESSENCE of each entity class.
Essence(kind) ==
    CASE kind = "rocks" -> "ROCKS"
      [] kind = "gold" -> "GOLD"
      [] kind = "log" -> "LOGS"
      [] kind = "axe" -> "TOOL"
      [] kind = "spruce" -> "PLANT"
      [] kind = "warrior" -> "HERO"
      [] kind = "pirate" -> "HERO"

\* features.set_inventorable() in the constructors.
HasInventorable(kind) == kind \in {"rocks", "gold", "log", "axe"}
\* features.set_stackable(1) in the constructors.
HasStackable(kind) == kind \in {"rocks", "gold"}
\* features.set_tool_or_weapon(...) in the constructors.
HasToolOrWeapon(kind) == kind = "axe"
\* features.set_damageable(...) in the constructors.
HasDamageable(kind) == kind = "spruce"
\* features.set_inventory() in the constructors.
HasInventory(kind) == kind = "pirate"

\* An inventory entry; an empty slot has id None.
EmptyEntry == [id |-> None, essence |-> "NONE", quantity |-> 0]
MkEntry(id, essence, quantity) == [id |-> id, essence |-> essence, quantity |-> quantity]

\* inventory.Inventory(): two hands and the pockets, all empty.
EmptyInventory ==
    [hands |-> [h \in Hands |-> EmptyEntry], pockets |-> [i \in Pockets |-> EmptyEntry]]

\* The inventory feature of an entity that has none.
NoInventory == <<>>

\* A Job; a task without one has kind "None".
NoJob == [kind |-> "None", duration |-> 0, events |-> <<>>]

\* essentials.IdleTask(): the task of a fresh entity.
IdleTask == [type |-> "Idle", job |-> NoJob, serial |-> 0]

\* An entity object as built by its class's constructor.
NewEntity(kind, id, position) ==
    [ kind |-> kind,
      id |-> id,
      position |-> position,
      task |-> IdleTask,
      stack |-> IF HasStackable(kind) THEN STACK_START_SIZE ELSE None,
      health |-> IF HasDamageable(kind) THEN SPRUCE_START_HEALTH ELSE None,
      stored_by |-> None,
      inventory |-> IF HasInventory(kind) THEN EmptyInventory ELSE NoInventory ]

(***************************************************************************)
(* State: the registry of entities.  order is the registry's iteration     *)
(* order, ent maps each registered id to its entity.                       *)
(***************************************************************************)
EmptyState == [order |-> <<>>, ent |-> <<>>, next_id |-> 0]

RegisteredIds(s) == {s.order[i] : i \in 1..Len(s.order)}

\* State.get_entity(id): the entity or None (here: a test and a selector).
HasEntity(s, id) == id \in RegisteredIds(s)
GetEntity(s, id) == s.ent[id]

SetEntity(s, e) == [s EXCEPT !.ent = [i \in DOMAIN s.ent |-> IF i = e.id THEN e ELSE s.ent[i]]]

RECURSIVE SeqWithout(_, _)
SeqWithout(seq, x) ==
    IF seq = <<>> THEN <<>>
    ELSE IF Head(seq) = x THEN SeqWithout(Tail(seq), x)
    ELSE <<Head(seq)>> \o SeqWithout(Tail(seq), x)

SetMax(S) == CHOOSE m \in S : \A x \in S : x <= m

\* An id allocator that hands out the id it handed out last.
FreshIdReused(s) == s.next_id - 1

\* A fresh id: larger than every id the registry has ever held.
FreshId(s) == s.next_id

\* State.add_entity(entity): appended to the registry.
AddEntity(s, e) ==
    [order |-> Append(s.order, e.id),
     ent |-> [i \in DOMAIN s.ent \cup {e.id} |-> IF i = e.id THEN e ELSE s.ent[i]],
     next_id |-> IF e.id >= s.next_id THEN e.id + 1 ELSE s.next_id]

\* State.delete_entity(id): dropped from the registry.
DeleteEntity(s, id) ==
    [order |-> SeqWithout(s.order, id),
     ent |-> [i \in DOMAIN s.ent \ {id} |-> s.ent[i]],
     next_id |-> s.next_id]

RECURSIVE StateOf(_)
\* State(elevation_function, entity_list)
StateOf(list) ==
    IF list = <<>> THEN EmptyState
    ELSE AddEntity(StateOf(SubSeq(list, 1, Len(list) - 1)), list[Len(list)])

\* WorldGenerator.generate(radius): the entity list of the generated world;
\* where[i] is the random position of spruce i.
Generate(where) ==
    <<NewEntity("axe", 1, -1),
      NewEntity("warrior", 2, 1),
      NewEntity("warrior", 3, 2),
      NewEntity("rocks", 4, 3),
      NewEntity("rocks", 5, 5),
      NewEntity("gold", 6, 4)>>
    \o [k \in 1..93 |-> NewEntity("spruce", k + 6, where[k + 6])]

\* Some outcomes of the generator's random placement of the spruces.
SprucePlacements ==
    {[i \in 7..99 |-> 50], [i \in 7..99 |-> i], [i \in 7..99 |-> IF i % 2 = 0 THEN 50 ELSE -50]}

\* The entity lists generate can hand to State's constructor.
GeneratedLists == {Generate(where) : where \in SprucePlacements}

(***************************************************************************)
(* Inventory operations.                                                   *)
(***************************************************************************)
\* Inventory.get_hand(hand): the id held in the hand, or None.
GetHand(inv, hand) == inv.hands[hand].id

\* Inventory.get_free_hand(): the first hand holding nothing, or "NONE".
GetFreeHand(inv) ==
    IF inv.hands["LEFT"].id = None THEN "LEFT"
    ELSE IF inv.hands["RIGHT"].id = None THEN "RIGHT"
    ELSE "NONE"

\* Inventory.store_entry(hand, entry)
StoreEntry(inv, hand, entry) == [inv EXCEPT !.hands[hand] = entry]

\* Inventory.swap(hand, index): the hand and the pocket exchange their entries.
Swap(inv, hand, index) ==
    [inv EXCEPT !.hands[hand] = inv.pockets[index], !.pockets[index] = inv.hands[hand]]

\* All non-empty entries of the inventory.
Entries(inv) ==
    {e \in {inv.hands[h] : h \in Hands} \cup {inv.pockets[i] : i \in Pockets} : e.id # None}

\* Inventory.to_items(): the set of (actor_id, essence, quantity) held.
ToItems(inv) == Entries(inv)

\* The entry of the inventory that refers to id (an empty entry if there is none).
EntryOf(inv, id) ==
    IF \E e \in Entries(inv) : e.id = id
    THEN CHOOSE e \in Entries(inv) : e.id = id
    ELSE EmptyEntry

\* The inventory with the entry of id replaced by entry, in whichever slot holds it.
ReplaceEntry(inv, id, entry) ==
    [hands |-> [h \in Hands |-> IF inv.hands[h].id = id THEN entry ELSE inv.hands[h]],
     pockets |-> [i \in Pockets |-> IF inv.pockets[i].id = id THEN entry ELSE inv.pockets[i]]]

\* Entity.as_info(): the inventory entry describing an entity.
AsInfo(e) ==
    MkEntry(e.id, Essence(e.kind), IF e.stack = None THEN 1 ELSE e.stack)

(***************************************************************************)
(* State: distances.                                                       *)
(***************************************************************************)
Abs(x) == IF x < 0 THEN 0 - x ELSE x

\* State.calculate_distance(a, b): None if either has no position.
CalculateDistance(a, b) ==
    IF a.position = None \/ b.position = None THEN None
    ELSE Abs(a.position - b.position)

\* "distance is None or MAX_DISTANCE < distance" of the tasks.
TooFar(a, b) ==
    \/ CalculateDistance(a, b) = None
    \/ MAX_DISTANCE < CalculateDistance(a, b)

(***************************************************************************)
(* State.merge_entities(inventory, hand, pocket_index).                    *)
(* The result is the new State and the new inventory.                      *)
(***************************************************************************)
MergeApplies(s, inv, hand, index) ==
    LET src == inv.hands[hand]
        tgt == inv.pockets[index]
    IN  /\ src.id # None
        /\ tgt.id # None
        /\ src.id # tgt.id
        /\ src.essence = tgt.essence
        /\ HasEntity(s, src.id)
        /\ HasEntity(s, tgt.id)
        /\ GetEntity(s, src.id).stack # None
        /\ GetEntity(s, tgt.id).stack # None

MergeEntities(s, inv, hand, index) ==
    IF ~MergeApplies(s, inv, hand, index) THEN [state |-> s, inv |-> inv]
    ELSE
    LET src == inv.hands[hand]
        tgt == inv.pockets[index]
        total == GetEntity(s, src.id).stack + GetEntity(s, tgt.id).stack
    IN  IF total <= MAX_STACK
        THEN LET filled == [GetEntity(s, tgt.id) EXCEPT !.stack = total]
             IN  [state |-> DeleteEntity(SetEntity(s, filled), src.id),
                  inv |-> [inv EXCEPT !.hands[hand] = EmptyEntry,
                                      !.pockets[index] = [tgt EXCEPT !.quantity = total]]]
        ELSE LET filled == [GetEntity(s, tgt.id) EXCEPT !.stack = MAX_STACK]
                 rest == [GetEntity(s, src.id) EXCEPT !.stack = total - MAX_STACK]
             IN  [state |-> SetEntity(SetEntity(s, filled), rest),
                  inv |-> [inv EXCEPT !.hands[hand] = [src EXCEPT !.quantity = total - MAX_STACK],
                                      !.pockets[index] = [tgt EXCEPT !.quantity = MAX_STACK]]]

(***************************************************************************)
(* Crafting: recipes, assemblies, State.validate_assembly and              *)
(* State.craft_entity.  An assembly is a recipe codename and, per          *)
(* ingredient of the recipe, a group of items (actor_id, essence,          *)
(* quantity) taken from the inventory.                                     *)
(***************************************************************************)
\* The axe: two units of rocks and one log.
AxeRecipe ==
    [codename |-> "axe", output |-> "axe",
     ingredients |-> <<[essence |-> "ROCKS", quantity |-> 2],
                       [essence |-> "LOGS", quantity |-> 1]>>]

Recipes == {AxeRecipe}

HasRecipe(codename) == \E r \in Recipes : r.codename = codename
RecipeOf(codename) == CHOOSE r \in Recipes : r.codename = codename

MkItem(actor_id, essence, quantity) ==
    [actor_id |-> actor_id, essence |-> essence, quantity |-> quantity]

RECURSIVE Flatten(_)
\* All items of all groups, in order.
Flatten(groups) == IF groups = <<>> THEN <<>> ELSE Head(groups) \o Flatten(Tail(groups))

RECURSIVE SumQuantity(_)
SumQuantity(items) ==
    IF items = <<>> THEN 0 ELSE Head(items).quantity + SumQuantity(Tail(items))

RECURSIVE Demand(_, _)
\* The quantity the items ask of actor id.
Demand(items, id) ==
    IF items = <<>> THEN 0
    ELSE (IF Head(items).actor_id = id THEN Head(items).quantity ELSE 0) + Demand(Tail(items), id)

\* State.validate_assembly(assembly, inventory)
ValidateAssembly(assembly, inv) ==
    /\ HasRecipe(assembly.recipe_codename)
    /\ LET recipe == RecipeOf(assembly.recipe_codename)
           items == Flatten(assembly.sources)
       IN  /\ Len(assembly.sources) = Len(recipe.ingredients)
           /\ \A g \in 1..Len(assembly.sources) :
                /\ SumQuantity(assembly.sources[g]) = recipe.ingredients[g].quantity
                /\ \A k \in 1..Len(assembly.sources[g]) :
                     LET item == assembly.sources[g][k]
                     IN  /\ item.quantity >= 1
                         /\ item.essence = recipe.ingredients[g].essence
                         /\ EntryOf(inv, item.actor_id).id = item.actor_id
                         /\ EntryOf(inv, item.actor_id).essence = item.essence
           /\ \A k \in 1..Len(items) :
                Demand(items, items[k].actor_id) <= EntryOf(inv, items[k].actor_id).quantity

\* ConsumeItem that leaves the inventory entry of a used-up item in place.
ConsumeItemKeepsEntry(r, item) ==
    LET entry == EntryOf(r.inv, item.actor_id)
        left == entry.quantity - item.quantity
    IN  IF left <= 0
        THEN [state |-> IF HasEntity(r.state, item.actor_id)
                        THEN DeleteEntity(r.state, item.actor_id) ELSE r.state,
              inv |-> r.inv,
              created |-> r.created,
              deleted |-> Append(r.deleted, item.actor_id)]
        ELSE [state |-> r.state,
              inv |-> ReplaceEntry(r.inv, item.actor_id, [entry EXCEPT !.quantity = left]),
              created |-> r.created,
              deleted |-> r.deleted]

\* One source item taken out of the inventory and the registry: a stack that is
\* used up is deleted, a larger one is decremented.
ConsumeItem(r, item) ==
    LET entry == EntryOf(r.inv, item.actor_id)
        left == entry.quantity - item.quantity
    IN  IF left <= 0
        THEN [state |-> IF HasEntity(r.state, item.actor_id)
                        THEN DeleteEntity(r.state, item.actor_id) ELSE r.state,
              inv |-> ReplaceEntry(r.inv, item.actor_id, EmptyEntry),
              created |-> r.created,
              deleted |-> Append(r.deleted, item.actor_id)]
        ELSE [state |-> IF HasEntity(r.state, item.actor_id)
                        THEN SetEntity(r.state,
                                 [GetEntity(r.state, item.actor_id) EXCEPT !.stack = left])
                        ELSE r.state,
              inv |-> ReplaceEntry(r.inv, item.actor_id, [entry EXCEPT !.quantity = left]),
              created |-> r.created,
              deleted |-> r.deleted]

RECURSIVE ConsumeAll(_, _)
ConsumeAll(r, items) ==
    IF items = <<>> THEN r ELSE ConsumeAll(ConsumeItem(r, Head(items)), Tail(items))

\* The recipe's output: a new entity under a fresh id, put into the free hand.
Materialize(r, kind) ==
    LET made == NewEntity(kind, FreshId(r.state), None)
    IN  [state |-> AddEntity(r.state, made),
         inv |-> StoreEntry(r.inv, GetFreeHand(r.inv), AsInfo(made)),
         created |-> Append(r.created, made.id),
         deleted |-> r.deleted]

\* A craft_entity that, on an assembly that fails validation, still takes the
\* named sources and creates nothing.
CraftEntityPartial(s, inv, assembly) ==
    LET r0 == [state |-> s, inv |-> inv, created |-> <<>>, deleted |-> <<>>]
    IN  IF ~HasRecipe(assembly.recipe_codename) \/ GetFreeHand(inv) = "NONE" THEN r0
        ELSE IF ~ValidateAssembly(assembly, inv) THEN ConsumeAll(r0, Flatten(assembly.sources))
        ELSE Materialize(ConsumeAll(r0, Flatten(assembly.sources)),
                         RecipeOf(assembly.recipe_codename).output)

\* State.craft_entity(assembly, inventory): the new State and inventory and the
\* CraftResult (created, deleted).
CraftEntity(s, inv, assembly) ==
    LET r0 == [state |-> s, inv |-> inv, created |-> <<>>, deleted |-> <<>>]
    IN  IF ~ValidateAssembly(assembly, inv) \/ GetFreeHand(inv) = "NONE" THEN r0
        ELSE Materialize(ConsumeAll(r0, Flatten(assembly.sources)),
                         RecipeOf(assembly.recipe_codename).output)

(***************************************************************************)
(* Claims: what an entity's features deliver and absorb, and the State's   *)
(* nearest-entity searches.                                                *)
(***************************************************************************)
\* Features.delivery_claims(): a tool or weapon delivers PAIN, an inventorable CARGO.
DeliveryClaims(kind) ==
    (IF HasToolOrWeapon(kind) THEN <<"PAIN">> ELSE <<>>)
    \o (IF HasInventorable(kind) THEN <<"CARGO">> ELSE <<>>)

\* What the features absorb: a damageable PAIN, an eater FOOD, an inventory CARGO.
AbsorbedClaims(kind) ==
    (IF HasDamageable(kind) THEN {"PAIN"} ELSE {})
    \cup (IF kind = "pirate" THEN {"FOOD", "CARGO"} ELSE {})

SeqToSet(seq) == {seq[i] : i \in 1..Len(seq)}

\* Features.get_first_absorbed(claims): the first of claims absorbed, or "NONE".
GetFirstAbsorbed(kind, claims) ==
    IF \E i \in 1..Len(claims) : claims[i] \in AbsorbedClaims(kind)
    THEN claims[CHOOSE i \in 1..Len(claims) :
                  /\ claims[i] \in AbsorbedClaims(kind)
                  /\ \A j \in 1..(i - 1) : claims[j] \notin AbsorbedClaims(kind)]
    ELSE "NONE"

\* Whether an entity of this kind delivers (or, for absorbing, absorbs) one of claims.
ClaimMatches(kind, claims, delivering) ==
    IF delivering
    THEN SeqToSet(DeliveryClaims(kind)) \cap SeqToSet(claims) # {}
    ELSE AbsorbedClaims(kind) \cap SeqToSet(claims) # {}

\* The registry positions of the entities other than origin that match and lie
\* within max_distance of it.
Candidates(s, origin_id, claims, max_distance, delivering) ==
    {i \in 1..Len(s.order) :
        /\ s.order[i] # origin_id
        /\ ClaimMatches(GetEntity(s, s.order[i]).kind, claims, delivering)
        /\ CalculateDistance(GetEntity(s, origin_id), GetEntity(s, s.order[i])) # None
        /\ CalculateDistance(GetEntity(s, origin_id), GetEntity(s, s.order[i])) <= max_distance}

\* A search that prefers the last registered among equally distant candidates.
FindClosestLast(s, origin_id, claims, max_distance, delivering) ==
    IF ~HasEntity(s, origin_id) THEN None
    ELSE LET cand == Candidates(s, origin_id, claims, max_distance, delivering)
             D(i) == CalculateDistance(GetEntity(s, origin_id), GetEntity(s, s.order[i]))
         IN  IF cand = {} THEN None
             ELSE s.order[CHOOSE i \in cand :
                            \A j \in cand : D(i) < D(j) \/ (D(i) = D(j) /\ i >= j)]

\* The nearest candidate, the first in registry order among the nearest; or None.
FindClosest(s, origin_id, claims, max_distance, delivering) ==
    IF ~HasEntity(s, origin_id) THEN None
    ELSE LET cand == Candidates(s, origin_id, claims, max_distance, delivering)
             D(i) == CalculateDistance(GetEntity(s, origin_id), GetEntity(s, s.order[i]))
         IN  IF cand = {} THEN None
             ELSE s.order[CHOOSE i \in cand :
                            \A j \in cand : D(i) < D(j) \/ (D(i) = D(j) /\ i <= j)]

\* State.find_closest_delivering_within(origin_id, claims, max_distance)
FindClosestDeliveringWithin(s, origin_id, claims, max_distance) ==
    FindClosest(s, origin_id, claims, max_distance, TRUE)

\* State.find_closest_absorbing_within(origin_id, claims, max_distance)
FindClosestAbsorbingWithin(s, origin_id, claims, max_distance) ==
    FindClosest(s, origin_id, claims, max_distance, FALSE)

(***************************************************************************)
(* Events, Actions and Jobs: plain records.                                *)
(***************************************************************************)
FinishedEvent(id) == [type |-> "Finished", receiver |-> id]

\* jobs.MovementJob(entity_id, speed, bearing, duration, events), built at time now.
MovementJob(entity_id, speed, bearing, duration, events, now) ==
    [kind |-> "Movement", duration |-> duration, events |-> events,
     entity_id |-> entity_id, speed |-> speed, bearing |-> bearing,
     prev_call_time |-> now]

\* jobs.WaitJob(duration, events)
WaitJob(duration, events) == [kind |-> "Wait", duration |-> duration, events |-> events]

\* jobs.DamageJob(dealer_id, receiver_id, tool_id, hand, events)
DamageJob(dealer_id, receiver_id, tool_id, hand, events) ==
    [kind |-> "Damage", duration |-> 0, events |-> events,
     dealer_id |-> dealer_id, receiver_id |-> receiver_id, tool_id |-> tool_id, hand |-> hand]

\* What a task's start or finish hands back: the task and the State as it left
\* them, the Actions it returned, and how it ended ("OK" or the exception raised).
Outcome(task, s, actions) == [task |-> task, state |-> s, actions |-> actions, error |-> "OK"]
Raised(task, s, exception) == [task |-> task, state |-> s, actions |-> <<>>, error |-> exception]

(***************************************************************************)
(* tasks.py.  Each Task kind has a constructor, start, get_job and finish. *)
(* start and finish take the task and the State and give an Outcome.       *)
(***************************************************************************)
\* Entity.move_by(distance, bearing, radius)
MoveBy(e, distance, bearing) ==
    IF e.position = None THEN e ELSE [e EXCEPT !.position = e.position + distance * bearing]

\* MovementTask.__init__: the job is built with the task and has no completion events.
MovementTask(entity_id, speed, bearing, now) ==
    [type |-> "Movement", entity_id |-> entity_id, speed |-> speed, bearing |-> bearing,
     job |-> MovementJob(entity_id, speed, bearing, TIMEOUT, <<>>, now)]

MovementTask_start(t, s) ==
    Outcome(t, s, <<[type |-> "Movement", actor_id |-> t.entity_id, speed |-> t.speed,
                     bearing |-> t.bearing, duration |-> TIMEOUT]>>)

MovementTask_get_job(t) == t.job

\* finish moves the entity by what it walked since the job was last called.
MovementTask_finish(t, s, now) ==
    IF t.job.kind = "None" THEN Raised(t, s, "AssertionError")
    ELSE IF ~HasEntity(s, t.entity_id) THEN Raised(t, s, "AssertionError")
    ELSE LET interval == now - t.job.prev_call_time
             moved == MoveBy(GetEntity(s, t.entity_id), t.speed * interval, t.bearing)
         IN  IF moved.position = None THEN Raised(t, SetEntity(s, moved), "AssertionError")
             ELSE Outcome(t, SetEntity(s, moved),
                          <<[type |-> "Localize", actor_id |-> t.entity_id,
                             position |-> moved.position]>>)

WalkTask(entity_id, speed, bearing, duration) ==
    [type |-> "Walk", entity_id |-> entity_id, speed |-> speed, bearing |-> bearing,
     duration |-> duration, job |-> NoJob]

WalkTask_start(t, s) ==
    Outcome(t, s, <<[type |-> "Movement", actor_id |-> t.entity_id, speed |-> t.speed,
                     bearing |-> t.bearing, duration |-> t.duration]>>)

\* A WalkTask whose job, like the MovementTask's, has no completion events.
WalkTask_get_job_no_events(t, now) ==
    MovementJob(t.entity_id, t.speed, t.bearing, t.duration, <<>>, now)

\* A new MovementJob on every call.
WalkTask_get_job(t, now) ==
    MovementJob(t.entity_id, t.speed, t.bearing, t.duration, <<FinishedEvent(t.entity_id)>>, now)

WalkTask_finish(t, s) ==
    IF ~HasEntity(s, t.entity_id) THEN Raised(t, s, "AssertionError")
    ELSE IF GetEntity(s, t.entity_id).position = None THEN Raised(t, s, "AssertionError")
    ELSE Outcome(t, s, <<[type |-> "Localize", actor_id |-> t.entity_id,
                          position |-> GetEntity(s, t.entity_id).position]>>)

PickItemTask(who_id, what_id, hand) ==
    [type |-> "PickItem", who_id |-> who_id, what_id |-> what_id, hand |-> hand, job |-> NoJob]

\* PickItemTask.start that builds the job before it has checked who, what and the distance.
PickItemTask_start_job_first(t, s) ==
    LET what_id == IF t.what_id = None
                   THEN FindClosestDeliveringWithin(s, t.who_id, <<"CARGO">>, MAX_DISTANCE)
                   ELSE t.what_id
        t1 == [t EXCEPT !.what_id = what_id]
        t2 == [t1 EXCEPT !.job = WaitJob(PICK_DURATION, <<FinishedEvent(t.who_id)>>)]
    IN  IF what_id = None THEN Outcome(t1, s, <<>>)
        ELSE IF ~HasEntity(s, t.who_id) \/ ~HasEntity(s, what_id) THEN Outcome(t2, s, <<>>)
        ELSE IF TooFar(GetEntity(s, t.who_id), GetEntity(s, what_id)) THEN Outcome(t2, s, <<>>)
        ELSE Outcome(t2, s, <<[type |-> "PickStart", who |-> t.who_id, what |-> what_id]>>)

\* A PickItemTask.start that does not look at the distance.
PickItemTask_start_any_distance(t, s) ==
    LET what_id == IF t.what_id = None
                   THEN FindClosestDeliveringWithin(s, t.who_id, <<"CARGO">>, MAX_DISTANCE)
                   ELSE t.what_id
        t1 == [t EXCEPT !.what_id = what_id]
    IN  IF what_id = None THEN Outcome(t1, s, <<>>)
        ELSE IF ~HasEntity(s, t.who_id) \/ ~HasEntity(s, what_id) THEN Outcome(t1, s, <<>>)
        ELSE Outcome([t1 EXCEPT !.job = WaitJob(PICK_DURATION, <<FinishedEvent(t.who_id)>>)],
                     s, <<[type |-> "PickStart", who |-> t.who_id, what |-> what_id]>>)

PickItemTask_start(t, s) ==
    LET what_id == IF t.what_id = None
                   THEN FindClosestDeliveringWithin(s, t.who_id, <<"CARGO">>, MAX_DISTANCE)
                   ELSE t.what_id
        t1 == [t EXCEPT !.what_id = what_id]
    IN  IF what_id = None THEN Outcome(t1, s, <<>>)
        ELSE IF ~HasEntity(s, t.who_id) \/ ~HasEntity(s, what_id) THEN Outcome(t1, s, <<>>)
        ELSE IF TooFar(GetEntity(s, t.who_id), GetEntity(s, what_id)) THEN Outcome(t1, s, <<>>)
        ELSE Outcome([t1 EXCEPT !.job = WaitJob(PICK_DURATION, <<FinishedEvent(t.who_id)>>)],
                     s, <<[type |-> "PickStart", who |-> t.who_id, what |-> what_id]>>)

PickItemTask_get_job(t) == t.job

\* A PickItemTask.finish that leaves the picked item where it lay.
PickItemTask_finish_leaves_item(t, s) ==
    IF t.what_id = None THEN Outcome(t, s, <<>>)
    ELSE IF ~HasEntity(s, t.who_id) \/ ~HasEntity(s, t.what_id) THEN Outcome(t, s, <<>>)
    ELSE LET entity == GetEntity(s, t.who_id)
             item == GetEntity(s, t.what_id)
         IN  IF ~HasInventory(entity.kind) \/ ~HasInventorable(item.kind) THEN Outcome(t, s, <<>>)
             ELSE IF TooFar(entity, item) THEN Outcome(t, s, <<>>)
             ELSE LET inv == StoreEntry(entity.inventory, t.hand, AsInfo(item))
                      s1 == SetEntity(s, [entity EXCEPT !.inventory = inv])
                      s2 == SetEntity(s1, [GetEntity(s1, t.what_id) EXCEPT
                                              !.stored_by = entity.id])
                  IN  Outcome(t, s2,
                              <<[type |-> "PickEnd", who |-> t.who_id],
                                [type |-> "UpdateInventory", owner_id |-> t.who_id,
                                 inventory |-> inv]>>)

\* A PickItemTask.finish that uses the inventory and inventorable features
\* without asking whether they are there.
PickItemTask_finish_unchecked(t, s) ==
    IF t.what_id = None THEN Outcome(t, s, <<>>)
    ELSE IF ~HasEntity(s, t.who_id) \/ ~HasEntity(s, t.what_id) THEN Outcome(t, s, <<>>)
    ELSE LET entity == GetEntity(s, t.who_id)
             item == GetEntity(s, t.what_id)
         IN  IF TooFar(entity, item) THEN Outcome(t, s, <<>>)
             ELSE IF ~HasInventory(entity.kind) \/ ~HasInventorable(item.kind)
                  THEN Raised(t, s, "AttributeError")
             ELSE LET inv == StoreEntry(entity.inventory, t.hand, AsInfo(item))
                      s1 == SetEntity(s, [entity EXCEPT !.inventory = inv])
                      s2 == SetEntity(s1, [GetEntity(s1, t.what_id) EXCEPT
                                              !.stored_by = entity.id, !.position = None])
                  IN  Outcome(t, s2,
                              <<[type |-> "PickEnd", who |-> t.who_id],
                                [type |-> "UpdateInventory", owner_id |-> t.who_id,
                                 inventory |-> inv]>>)

PickItemTask_finish(t, s) ==
    IF t.what_id = None THEN Outcome(t, s, <<>>)
    ELSE IF ~HasEntity(s, t.who_id) \/ ~HasEntity(s, t.what_id) THEN Outcome(t, s, <<>>)
    ELSE LET entity == GetEntity(s, t.who_id)
             item == GetEntity(s, t.what_id)
         IN  IF ~HasInventory(entity.kind) \/ ~HasInventorable(item.kind) THEN Outcome(t, s, <<>>)
             ELSE IF TooFar(entity, item) THEN Outcome(t, s, <<>>)
             ELSE LET inv == StoreEntry(entity.inventory, t.hand, AsInfo(item))
                      s1 == SetEntity(s, [entity EXCEPT !.inventory = inv])
                      s2 == SetEntity(s1, [GetEntity(s1, t.what_id) EXCEPT
                                              !.stored_by = entity.id, !.position = None])
                  IN  Outcome(t, s2,
                              <<[type |-> "PickEnd", who |-> t.who_id],
                                [type |-> "UpdateInventory", owner_id |-> t.who_id,
                                 inventory |-> inv]>>)

UseItemTask(performer_id, item_id, receiver_id, hand) ==
    [type |-> "UseItem", performer_id |-> performer_id, item_id |-> item_id,
     receiver_id |-> receiver_id, hand |-> hand, job |-> NoJob]

\* A UseItemTask.start that dispatches on the item's first claim, absorbed or not.
UseItemTask_start_first_delivered(t, s) ==
    IF ~HasEntity(s, t.performer_id) \/ ~HasEntity(s, t.item_id) THEN Outcome(t, s, <<>>)
    ELSE LET claims == DeliveryClaims(GetEntity(s, t.item_id).kind)
             receiver_id == IF t.receiver_id # None /\ t.receiver_id # 0
                            THEN t.receiver_id
                            ELSE FindClosestAbsorbingWithin(s, t.performer_id, claims,
                                                            MAX_DISTANCE)
             t1 == [t EXCEPT !.receiver_id = receiver_id]
         IN  IF receiver_id = None THEN Outcome(t1, s, <<>>)
             ELSE IF ~HasEntity(s, receiver_id) THEN Outcome(t1, s, <<>>)
             ELSE IF TooFar(GetEntity(s, t.performer_id), GetEntity(s, receiver_id))
                  THEN Outcome(t1, s, <<>>)
             ELSE IF claims # <<>> /\ claims[1] = "PAIN"
                  THEN Outcome([t1 EXCEPT !.job =
                                    DamageJob(t.performer_id, receiver_id, t.item_id, t.hand,
                                              <<FinishedEvent(t.performer_id)>>)],
                               s, <<>>)
             ELSE Outcome(t1, s, <<>>)

\* "self.receiver_id if self.receiver_id else ...": None and 0 both count as absent.
UseItemTask_start(t, s) ==
    IF ~HasEntity(s, t.performer_id) \/ ~HasEntity(s, t.item_id) THEN Outcome(t, s, <<>>)
    ELSE LET claims == DeliveryClaims(GetEntity(s, t.item_id).kind)
             receiver_id == IF t.receiver_id # None /\ t.receiver_id # 0
                            THEN t.receiver_id
                            ELSE FindClosestAbsorbingWithin(s, t.performer_id, claims,
                                                            MAX_DISTANCE)
             t1 == [t EXCEPT !.receiver_id = receiver_id]
         IN  IF receiver_id = None THEN Outcome(t1, s, <<>>)
             ELSE IF ~HasEntity(s, receiver_id) THEN Outcome(t1, s, <<>>)
             ELSE IF TooFar(GetEntity(s, t.performer_id), GetEntity(s, receiver_id))
                  THEN Outcome(t1, s, <<>>)
             ELSE IF GetFirstAbsorbed(GetEntity(s, receiver_id).kind, claims) = "PAIN"
                  THEN Outcome([t1 EXCEPT !.job =
                                    DamageJob(t.performer_id, receiver_id, t.item_id, t.hand,
                                              <<FinishedEvent(t.performer_id)>>)],
                               s, <<>>)
             ELSE Outcome(t1, s, <<>>)

UseItemTask_get_job(t) == t.job

UseItemTask_finish(t, s) == Outcome(t, s, <<>>)

InventoryUpdateTask(performer_id, hand, inventory_index, update_variant) ==
    [type |-> "InventoryUpdate", performer_id |-> performer_id, hand |-> hand,
     inventory_index |-> inventory_index, update_variant |-> update_variant, job |-> NoJob]

InventoryUpdateTask_start(t, s) == Outcome(t, s, <<>>)

\* A new WaitJob on every call.
InventoryUpdateTask_get_job(t) == WaitJob(SWAP_DURATION, <<FinishedEvent(t.performer_id)>>)

InventoryUpdateTask_finish_swaps(t, s) ==
    IF ~HasEntity(s, t.performer_id) THEN Outcome(t, s, <<>>)
    ELSE IF ~HasInventory(GetEntity(s, t.performer_id).kind) THEN Outcome(t, s, <<>>)
    ELSE LET performer == GetEntity(s, t.performer_id)
             inv == Swap(performer.inventory, t.hand, t.inventory_index)
         IN  Outcome(t, SetEntity(s, [performer EXCEPT !.inventory = inv]),
                     <<[type |-> "UpdateInventory", owner_id |-> t.performer_id,
                        inventory |-> inv]>>)

InventoryUpdateTask_finish(t, s) ==
    IF ~HasEntity(s, t.performer_id) THEN Outcome(t, s, <<>>)
    ELSE IF ~HasInventory(GetEntity(s, t.performer_id).kind) THEN Outcome(t, s, <<>>)
    ELSE LET performer == GetEntity(s, t.performer_id)
             merged == MergeEntities(s, performer.inventory, t.hand, t.inventory_index)
             r == IF t.update_variant = "SWAP"
                  THEN [state |-> s,
                        inv |-> Swap(performer.inventory, t.hand, t.inventory_index)]
                  ELSE IF t.update_variant = "MERGE" THEN merged
                  ELSE [state |-> s, inv |-> performer.inventory]
         IN  Outcome(t, SetEntity(r.state,
                                  [GetEntity(r.state, t.performer_id) EXCEPT !.inventory = r.inv]),
                     <<[type |-> "UpdateInventory", owner_id |-> t.performer_id,
                        inventory |-> r.inv]>>)

\* DieAndDropTask.__init__: the job is built with the task.
DieAndDropTask(dier_id, drops) ==
    [type |-> "DieAndDrop", dier_id |-> dier_id, drops |-> drops,
     job |-> WaitJob(DIE_DURATION, <<FinishedEvent(dier_id)>>)]

RECURSIVE AddDrops(_, _)
\* "for drop in self.drops: state.add_entity(drop)"; an entity built with a
\* negative id is registered under a fresh one.
AddDrops(r, drops) ==
    IF drops = <<>> THEN r
    ELSE LET drop == IF Head(drops).id < 0
                     THEN [Head(drops) EXCEPT !.id = FreshId(r.state)]
                     ELSE Head(drops)
         IN  AddDrops([state |-> AddEntity(r.state, drop), ids |-> Append(r.ids, drop.id)],
                      Tail(drops))

DieAndDropTask_start(t, s) ==
    IF ~HasEntity(s, t.dier_id) THEN Outcome(t, s, <<>>)
    ELSE LET r == AddDrops([state |-> s, ids |-> <<>>], t.drops)
         IN  Outcome(t, r.state,
                     <<[type |-> "CreateActors", actors |-> r.ids],
                       [type |-> "DeleteActors", actor_ids |-> <<t.dier_id>>]>>)

DieAndDropTask_get_job(t) == t.job

DieAndDropTask_finish(t, s) == Outcome(t, s, <<>>)

CraftTask(crafter_id, assembly) ==
    [type |-> "Craft", crafter_id |-> crafter_id, assembly |-> assembly, job |-> NoJob]

\* A CraftTask.start that does not ask for a free hand.
CraftTask_start_hands_full(t, s) ==
    IF ~HasEntity(s, t.crafter_id) THEN Outcome(t, s, <<>>)
    ELSE IF ~HasInventory(GetEntity(s, t.crafter_id).kind) THEN Outcome(t, s, <<>>)
    ELSE IF ~ValidateAssembly(t.assembly, GetEntity(s, t.crafter_id).inventory)
         THEN Outcome(t, s, <<>>)
    ELSE Outcome([t EXCEPT !.job = WaitJob(CRAFT_DURATION, <<FinishedEvent(t.crafter_id)>>)],
                 s, <<[type |-> "CraftStart", crafter_id |-> t.crafter_id]>>)

CraftTask_start(t, s) ==
    IF ~HasEntity(s, t.crafter_id) THEN Outcome(t, s, <<>>)
    ELSE IF ~HasInventory(GetEntity(s, t.crafter_id).kind) THEN Outcome(t, s, <<>>)
    ELSE IF GetFreeHand(GetEntity(s, t.crafter_id).inventory) = "NONE" THEN Outcome(t, s, <<>>)
    ELSE IF ~ValidateAssembly(t.assembly, GetEntity(s, t.crafter_id).inventory)
         THEN Outcome(t, s, <<>>)
    ELSE Outcome([t EXCEPT !.job = WaitJob(CRAFT_DURATION, <<FinishedEvent(t.crafter_id)>>)],
                 s, <<[type |-> "CraftStart", crafter_id |-> t.crafter_id]>>)

CraftTask_get_job(t) == t.job

CraftTask_finish_reports_created(t, s) ==
    IF ~HasEntity(s, t.crafter_id) \/ ~HasInventory(GetEntity(s, t.crafter_id).kind)
    THEN Outcome(t, s, <<[type |-> "CraftEnd", crafter_id |-> t.crafter_id]>>)
    ELSE LET r == CraftEntity(s, GetEntity(s, t.crafter_id).inventory, t.assembly)
             s1 == SetEntity(r.state,
                             [GetEntity(r.state, t.crafter_id) EXCEPT !.inventory = r.inv])
         IN  Outcome(t, s1,
                     <<[type |-> "CreateActors", actors |-> r.created],
                       [type |-> "DeleteActors", actor_ids |-> r.created],
                       [type |-> "UpdateInventory", owner_id |-> t.crafter_id, inventory |-> r.inv],
                       [type |-> "CraftEnd", crafter_id |-> t.crafter_id]>>)

\* A CraftTask.finish that returns nothing when the crafter is gone.
CraftTask_finish_silent(t, s) ==
    IF ~HasEntity(s, t.crafter_id) \/ ~HasInventory(GetEntity(s, t.crafter_id).kind)
    THEN Outcome(t, s, <<>>)
    ELSE LET r == CraftEntity(s, GetEntity(s, t.crafter_id).inventory, t.assembly)
             s1 == SetEntity(r.state,
                             [GetEntity(r.state, t.crafter_id) EXCEPT !.inventory = r.inv])
         IN  Outcome(t, s1,
                     <<[type |-> "CreateActors", actors |-> r.created],
                       [type |-> "DeleteActors", actor_ids |-> r.deleted],
                       [type |-> "UpdateInventory", owner_id |-> t.crafter_id, inventory |-> r.inv],
                       [type |-> "CraftEnd", crafter_id |-> t.crafter_id]>>)

CraftTask_finish(t, s) ==
    IF ~HasEntity(s, t.crafter_id) \/ ~HasInventory(GetEntity(s, t.crafter_id).kind)
    THEN Outcome(t, s, <<[type |-> "CraftEnd", crafter_id |-> t.crafter_id]>>)
    ELSE LET r == CraftEntity(s, GetEntity(s, t.crafter_id).inventory, t.assembly)
             s1 == SetEntity(r.state,
                             [GetEntity(r.state, t.crafter_id) EXCEPT !.inventory = r.inv])
         IN  Outcome(t, s1,
                     <<[type |-> "CreateActors", actors |-> r.created],
                       [type |-> "DeleteActors", actor_ids |-> r.deleted],
                       [type |-> "UpdateInventory", owner_id |-> t.crafter_id, inventory |-> r.inv],
                       [type |-> "CraftEnd", crafter_id |-> t.crafter_id]>>)

\* IdleTask: no actions, no job.
IdleTask_start(t, s) == Outcome(t, s, <<>>)
IdleTask_finish(t, s) == Outcome(t, s, <<>>)

\* Dispatch on the task kind, as the method call does.
TaskStart(t, s) ==
    CASE t.type = "Idle" -> IdleTask_start(t, s)
      [] t.type = "Movement" -> MovementTask_start(t, s)
      [] t.type = "Walk" -> WalkTask_start(t, s)
      [] t.type = "PickItem" -> PickItemTask_start(t, s)
      [] t.type = "UseItem" -> UseItemTask_start(t, s)
      [] t.type = "InventoryUpdate" -> InventoryUpdateTask_start(t, s)
      [] t.type = "DieAndDrop" -> DieAndDropTask_start(t, s)
      [] t.type = "Craft" -> CraftTask_start(t, s)

TaskGetJob(t, now) ==
    CASE t.type = "Idle" -> NoJob
      [] t.type = "Movement" -> MovementTask_get_job(t)
      [] t.type = "Walk" -> WalkTask_get_job(t, now)
      [] t.type = "PickItem" -> PickItemTask_get_job(t)
      [] t.type = "UseItem" -> UseItemTask_get_job(t)
      [] t.type = "InventoryUpdate" -> InventoryUpdateTask_get_job(t)
      [] t.type = "DieAndDrop" -> DieAndDropTask_get_job(t)
      [] t.type = "Craft" -> CraftTask_get_job(t)

TaskFinish(t, s, now) ==
    CASE t.type = "Idle" -> IdleTask_finish(t, s)
      [] t.type = "Movement" -> MovementTask_finish(t, s, now)
      [] t.type = "Walk" -> WalkTask_finish(t, s)
      [] t.type = "PickItem" -> PickItemTask_finish(t, s)
      [] t.type = "UseItem" -> UseItemTask_finish(t, s)
      [] t.type = "InventoryUpdate" -> InventoryUpdateTask_finish(t, s)
      [] t.type = "DieAndDrop" -> DieAndDropTask_finish(t, s)
      [] t.type = "Craft" -> CraftTask_finish(t, s)

(***************************************************************************)
(* entities.py: handle_event of each entity class.  The result is the      *)
(* entity as the handler left it and how the handler ended.  A task built  *)
(* by the handler is a new object: it carries the serial number given.     *)
(***************************************************************************)
Stamped(t, serial) == [serial |-> serial] @@ t

Handled(e) == [entity |-> e, error |-> "OK"]
HandlerRaised(e, exception) == [entity |-> e, error |-> exception]

\* Rocks, Gold, Log, Axe: "pass".
Item_handle_event(e, event) == Handled(e)

\* Damageable.handle_damage(amount): subtracts; alive while health is positive.
HandleDamage(e, amount) == [e EXCEPT !.health = e.health - amount]

\* An entity counted as alive at health zero.
IsAliveAtZero(e) == e.health >= 0

\* The report of Damageable.handle_damage: alive while health is left.
IsAlive(e) == e.health > 0

\* Spruce.generate_drops(): three logs with id -1 at the spruce's position.
Spruce_generate_drops(e) == [i \in 1..3 |-> NewEntity("log", -1, e.position)]

\* A Spruce that starts dying on any damage that leaves it alive.
Spruce_handle_event_dies_alive(e, event, serial) ==
    IF event.type # "Damage" THEN Handled(e)
    ELSE IF e.health = None THEN HandlerRaised(e, "AssertionError")
    ELSE LET hit == HandleDamage(e, event.damage_amount)
         IN  IF ~IsAlive(hit) THEN Handled(hit)
             ELSE Handled([hit EXCEPT !.task =
                              Stamped(DieAndDropTask(hit.id, Spruce_generate_drops(hit)),
                                      serial)])

Spruce_handle_event(e, event, serial) ==
    IF event.type # "Damage" THEN Handled(e)
    ELSE IF e.health = None THEN HandlerRaised(e, "AssertionError")
    ELSE LET hit == HandleDamage(e, event.damage_amount)
         IN  IF IsAlive(hit) THEN Handled(hit)
             ELSE IF hit.position = None THEN HandlerRaised(hit, "AssertionError")
             ELSE Handled([hit EXCEPT !.task =
                              Stamped(DieAndDropTask(hit.id, Spruce_generate_drops(hit)),
                                      serial)])

\* A warrior that answers Resume only.
Warrior_handle_event_resume_only(e, event, serial, bearing) ==
    IF event.type = "Resume"
    THEN Handled([e EXCEPT !.task =
                     Stamped(WalkTask(e.id, WALK_SPEED, bearing, WALK_DURATION), serial)])
    ELSE Handled(e)

\* The bearing is drawn at random by the handler; here it is an argument.
Warrior_handle_event(e, event, serial, bearing) ==
    IF event.type \in {"Resume", "Finished"}
    THEN Handled([e EXCEPT !.task =
                     Stamped(WalkTask(e.id, WALK_SPEED, bearing, WALK_DURATION), serial)])
    ELSE Handled(e)

\* tasks.InventorySwapTask does not exist in tasks.py: the lookup raises.
Pirate_handle_event(e, event, serial, now) ==
    CASE event.type = "Conclude" -> Handled(e)
      [] event.type \in {"Stop", "Finished"} ->
            Handled([e EXCEPT !.task = Stamped(IdleTask, serial)])
      [] event.type = "StartMoving" ->
            Handled([e EXCEPT !.task =
                        Stamped(MovementTask(e.id, MOVE_SPEED, event.bearing, now), serial)])
      [] event.type = "HandActivation" ->
            IF GetHand(e.inventory, event.hand) # None
            THEN Handled([e EXCEPT !.task =
                             Stamped(UseItemTask(e.id, GetHand(e.inventory, event.hand),
                                                 event.object_id, event.hand), serial)])
            ELSE Handled([e EXCEPT !.task =
                             Stamped(PickItemTask(e.id, event.object_id, event.hand), serial)])
      [] event.type = "InventorySwap" -> HandlerRaised(e, "AttributeError")
      [] event.type = "Craft" ->
            Handled([e EXCEPT !.task = Stamped(CraftTask(e.id, event.assembly), serial)])
      [] event.type = "Resume" ->
            Handled([e EXCEPT !.task = Stamped(IdleTask, serial)])
      [] OTHER -> Handled(e)

\* entity.handle_event(event), by the entity's class.
HandleEvent(e, event, serial, now, bearing) ==
    CASE e.kind = "pirate" -> Pirate_handle_event(e, event, serial, now)
      [] e.kind = "warrior" -> Warrior_handle_event(e, event, serial, bearing)
      [] e.kind = "spruce" -> Spruce_handle_event(e, event, serial)
      [] OTHER -> Item_handle_event(e, event)

(***************************************************************************)
(* The state of the model.                                                 *)
(*   state    the State object (registry and entities)                     *)
(*   now      the monotonic clock                                          *)
(* The scenarios that run single operations also keep                      *)
(*   pre      the State as it was before the last operation                *)
(*   task     the task the last operation ran, as the operation left it    *)
(*   out      what that operation returned (an Outcome)                    *)
(*   got_job  what the task's get_job() returned after start               *)
(*   removed  the ids removed from the State since the task started        *)
(*   phase    which operation ran last                                     *)
(*   ops      how many operations have run                                 *)
(*   handled  the last event delivered by the event scenarios: receiver,   *)
(*            event, the handler's error, whether it replaced the task,    *)
(*            the State when the handler returned (before), the task it    *)
(*            found (old_task) and the one it assigned, and what the       *)
(*            hand-over returned: finish, start, job, and the task as      *)
(*            start left it (new_task)                                     *)
(* and the engine keeps                                                    *)
(*   jobs         the scheduler's registered jobs                          *)
(*   next_serial  the serial number of the next task object                *)
(*   expired      the log of jobs that expired, with the events emitted    *)
(*   cancelled    the jobs cancelled: task serial, owner, deadline          *)
(*   stale        whether a completion event reached a task other than the *)
(*                one whose job emitted it                                 *)
(*   error        "OK", or the exception that ended the program            *)
(*   inputs       how many input events were delivered                     *)
(*   ticks        how many ticks have run                                  *)
(*   trace        what the engine did in its last step, in order: the      *)
(*                events it applied, the jobs it advanced and the Actions  *)
(*                it sent out                                              *)
(* and the client side keeps                                               *)
(*   geo          the coordinates given to a conversion, what it returned  *)
(*                and what the conversion back returned                    *)
(*   stage        the animations the world is playing, in the order they   *)
(*                were added, and the last action handed to it             *)
(***************************************************************************)
VARIABLES state, now, pre, task, out, got_job, removed, phase, ops, handled,
          jobs, next_serial, expired, cancelled, stale, error, inputs, ticks, trace,
          geo, stage, controls

harnessVars == <<pre, task, out, got_job, removed, phase, ops, handled>>
engineVars == <<jobs, next_serial, expired, cancelled, stale, error, inputs, ticks, trace>>
vars == <<state, now, pre, task, out, got_job, removed, phase, ops, handled,
          jobs, next_serial, expired, cancelled, stale, error, inputs, ticks, trace,
          geo, stage, controls>>
clientVars == <<geo, stage, controls>>

NoOutcome == Outcome(IdleTask, EmptyState, <<>>)

\* No event has been delivered.
NoHandled ==
    [receiver |-> None, event |-> [type |-> "None", receiver |-> None], error |-> "OK",
     replaced |-> FALSE, before |-> EmptyState, old_task |-> IdleTask,
     assigned |-> IdleTask, new_task |-> IdleTask,
     finish |-> NoOutcome, start |-> NoOutcome, job |-> NoJob]

\* No operation has run yet.
HarnessIdle ==
    /\ pre = EmptyState
    /\ task = IdleTask
    /\ out = NoOutcome
    /\ got_job = NoJob
    /\ removed = {}
    /\ phase = "init"
    /\ ops = 0
    /\ handled = NoHandled

\* The engine is not running.
EngineIdle ==
    /\ now = 0
    /\ jobs = {}
    /\ next_serial = 1
    /\ expired = <<>>
    /\ cancelled = {}
    /\ stale = FALSE
    /\ error = "OK"
    /\ inputs = 0
    /\ ticks = 0
    /\ trace = <<>>

\* No coordinates were converted, the world plays no animation.
NoGeo == [step |-> "none", from |-> "none", given |-> <<>>, converted |-> <<>>, restored |-> <<>>]
NoStage ==
    [animations |-> <<>>, clock |-> 0, error |-> "OK", added |-> 0, ticked |-> 0,
     last |-> [step |-> "none"], calls |-> <<>>]
\* stage.calls: the calls the animations made on scene, world and gui in the
\* last tick played (in SpecAnim: in all the ticks of the one animation).

\* Controls.__init__: no moment kept, no action active.  clock is the
\* monotonic clock; last is the call made last, with the key it computed,
\* what it returned and the keys active before it; held are the keys pressed
\* and not released since.
NoControls ==
    [prev_moment |-> None, active_actions |-> <<>>, error |-> "OK", calls |-> <<>>,
     clock |-> 0, ops |-> 0, held |-> {},
     last |-> [op |-> "none", key |-> <<"none", {}>>, returned |-> FALSE, before |-> <<>>]]

ClientIdle ==
    /\ geo = NoGeo
    /\ stage = NoStage
    /\ controls = NoControls

\* Bound: operations per run of the merge and craft scenarios.
MaxOps == 2

(***************************************************************************)
(* Merge scenarios (test_merge_entities_fit / _not_fit): a pirate whose    *)
(* inventory holds one entity in the left hand, one in pocket 2 and a      *)
(* bystander in pocket 3; InventoryUpdateTask.finish runs on it.           *)
(***************************************************************************)
StackKinds == {"rocks", "gold", "log"}

WithStack(e, size) == IF e.stack = None THEN e ELSE [e EXCEPT !.stack = size]

MergeWorld(k1, k2, n1, n2) ==
    LET source == [WithStack(NewEntity(k1, 1, None), n1) EXCEPT !.stored_by = 0]
        target == [WithStack(NewEntity(k2, 2, None), n2) EXCEPT !.stored_by = 0]
        other == [WithStack(NewEntity("gold", 3, None), 2) EXCEPT !.stored_by = 0]
        inv == [hands |-> [h \in Hands |-> IF h = "LEFT" THEN AsInfo(source) ELSE EmptyEntry],
                pockets |-> [i \in Pockets |->
                               IF i = 2 THEN AsInfo(target)
                               ELSE IF i = 3 THEN AsInfo(other) ELSE EmptyEntry]]
        pirate == [NewEntity("pirate", 0, 0) EXCEPT !.inventory = inv]
    IN  StateOf(<<pirate, source, target, other>>)

InitMerge ==
    /\ \E k1 \in StackKinds, k2 \in StackKinds, n1 \in 1..MaxHandQty, n2 \in 1..MaxPocketQty :
          state = MergeWorld(k1, k2, n1, n2)
    /\ HarnessIdle
    /\ EngineIdle
    /\ ClientIdle

\* InventoryUpdateTask(...).finish(state) for some hand, pocket and variant.
InventoryUpdateFinish ==
    /\ ops < MaxOps
    /\ \E hand \in Hands, index \in Pockets, variant \in {"SWAP", "MERGE"} :
          LET t == InventoryUpdateTask(0, hand, index, variant)
              r == InventoryUpdateTask_finish(t, state)
          IN  /\ task' = t
              /\ out' = r
              /\ state' = r.state
    /\ pre' = state
    /\ phase' = "InventoryUpdate.finish"
    /\ ops' = ops + 1
    /\ UNCHANGED <<now, got_job, removed, handled, engineVars, clientVars>>

NextMerge == InventoryUpdateFinish

SpecMerge == InitMerge /\ [][NextMerge]_vars

(***************************************************************************)
(* Craft scenarios (test_craft): a pirate whose pockets hold a stack of    *)
(* rocks, a stack of gold and a log, and maybe a second log in the right   *)
(* hand; CraftTask.finish runs on it with an assembly of any shape.        *)
(***************************************************************************)
\* Bound: largest rocks stack drawn for the craft scenarios.
MaxRocks == 4

CraftWorld(rocks_qty, with_log_in_hand) ==
    LET rock == [WithStack(NewEntity("rocks", 1, None), rocks_qty) EXCEPT !.stored_by = 0]
        gold == [WithStack(NewEntity("gold", 2, None), 2) EXCEPT !.stored_by = 0]
        logs == [NewEntity("log", 3, None) EXCEPT !.stored_by = 0]
        log2 == [NewEntity("log", 4, None) EXCEPT !.stored_by = 0]
        inv == [hands |-> [h \in Hands |->
                             IF h = "RIGHT" /\ with_log_in_hand THEN AsInfo(log2)
                             ELSE EmptyEntry],
                pockets |-> [i \in Pockets |->
                               IF i = 1 THEN AsInfo(rock)
                               ELSE IF i = 2 THEN AsInfo(gold)
                               ELSE IF i = 3 THEN AsInfo(logs) ELSE EmptyEntry]]
        pirate == [NewEntity("pirate", 0, 0) EXCEPT !.inventory = inv]
    IN  StateOf(<<pirate, rock, gold, logs>>
                \o (IF with_log_in_hand THEN <<log2>> ELSE <<>>))

\* Groups offered for the axe's head: one item, or the rocks stack named twice.
HeadGroups ==
    {<<MkItem(a, e, q)>> : a \in {1, 2}, e \in {"ROCKS", "GOLD"}, q \in 1..2}
    \cup {<<MkItem(1, "ROCKS", 1), MkItem(1, "ROCKS", 1)>>}

\* Groups offered for the axe's handle; actor 9 does not exist.
HandleGroups == {<<MkItem(a, "LOGS", q)>> : a \in {3, 4, 9}, q \in 1..2}

Assemblies ==
    {[recipe_codename |-> c, sources |-> <<h, g>>] :
        c \in {"axe", "hat"}, h \in HeadGroups, g \in HandleGroups}
    \cup {[recipe_codename |-> "axe", sources |-> <<h>>] : h \in HeadGroups}

InitCraft ==
    /\ \E n \in 1..MaxRocks, b \in BOOLEAN : state = CraftWorld(n, b)
    /\ HarnessIdle
    /\ EngineIdle
    /\ ClientIdle

\* CraftTask(crafter, assembly).finish(state); crafter 8 does not exist.
CraftFinish ==
    /\ ops < MaxOps
    /\ \E crafter \in {0, 8}, assembly \in Assemblies :
          LET t == CraftTask(crafter, assembly)
              r == CraftTask_finish(t, state)
          IN  /\ task' = t
              /\ out' = r
              /\ state' = r.state
    /\ pre' = state
    /\ phase' = "Craft.finish"
    /\ ops' = ops + 1
    /\ UNCHANGED <<now, got_job, removed, handled, engineVars, clientVars>>

\* The assemblies offered to start: good ones with either log as handle, ones
\* of the wrong essence, of a short quantity or without handle, and one of an
\* unknown recipe.
StartAssemblies ==
    {[recipe_codename |-> "axe", sources |-> <<h, <<MkItem(g, "LOGS", 1)>>>>] :
        h \in {<<MkItem(1, "ROCKS", 2)>>, <<MkItem(1, "ROCKS", 1), MkItem(1, "ROCKS", 1)>>,
               <<MkItem(2, "GOLD", 2)>>, <<MkItem(1, "ROCKS", 1)>>},
        g \in {3, 4}}
    \cup {[recipe_codename |-> "axe", sources |-> <<<<MkItem(1, "ROCKS", 2)>>>>],
          [recipe_codename |-> "hat",
           sources |-> <<<<MkItem(1, "ROCKS", 2)>>, <<MkItem(3, "LOGS", 1)>>>>]}

\* CraftTask(crafter, assembly).start(state), then get_job(); entity 1 is the
\* rocks stack, which has no inventory.
CraftStart ==
    /\ ops < MaxOps
    /\ \E crafter \in {0, 1, 8}, assembly \in StartAssemblies :
          \E r \in {CraftTask_start(CraftTask(crafter, assembly), state)} :
             /\ task' = r.task
             /\ out' = r
             /\ state' = r.state
             /\ got_job' = CraftTask_get_job(r.task)
    /\ pre' = state
    /\ phase' = "Craft.start"
    /\ ops' = ops + 1
    /\ UNCHANGED <<now, removed, handled, engineVars, clientVars>>

NextCraft == CraftFinish \/ CraftStart

SpecCraft == InitCraft /\ [][NextCraft]_vars

(***************************************************************************)
(* Task scenarios: one task of any kind is started on a small world, the   *)
(* State's remove-by-id may take entities away, and the task is finished.  *)
(* The world: pirate 0 (rocks 3 and log 5 in its pockets, and maybe axe 1  *)
(* in its left hand), axe 1, spruce 2, warrior 4 and rocks 6 on the ground.*)
(***************************************************************************)
\* Bound: entities removed between a task's start and its finish.
MaxRemovals == 1

TaskWorld(axe_held, spruce_position) ==
    LET axe == IF axe_held
               THEN [NewEntity("axe", 1, None) EXCEPT !.stored_by = 0]
               ELSE NewEntity("axe", 1, 40)
        spruce == NewEntity("spruce", 2, spruce_position)
        rocks == [WithStack(NewEntity("rocks", 3, None), 2) EXCEPT !.stored_by = 0]
        warrior == NewEntity("warrior", 4, 30)
        logs == [NewEntity("log", 5, None) EXCEPT !.stored_by = 0]
        ground == NewEntity("rocks", 6, 150)
        inv == [hands |-> [h \in Hands |->
                             IF h = "LEFT" /\ axe_held THEN AsInfo(axe) ELSE EmptyEntry],
                pockets |-> [i \in Pockets |->
                               IF i = 1 THEN AsInfo(rocks)
                               ELSE IF i = 2 THEN AsInfo(logs) ELSE EmptyEntry]]
        pirate == [NewEntity("pirate", 0, 0) EXCEPT !.inventory = inv]
    IN  StateOf(<<pirate, axe, spruce, rocks, warrior, logs, ground>>)

Bearings == {1, -1}

\* An assembly the task world's inventory satisfies, and one it does not.
GoodAssembly ==
    [recipe_codename |-> "axe",
     sources |-> <<<<MkItem(3, "ROCKS", 2)>>, <<MkItem(5, "LOGS", 1)>>>>]
BadAssembly ==
    [recipe_codename |-> "axe",
     sources |-> <<<<MkItem(3, "ROCKS", 2)>>, <<MkItem(9, "LOGS", 1)>>>>]

\* The tasks the scenarios start; entities 8 and 9 do not exist.
ScenarioTasks(s, t0) ==
    {MovementTask(0, MOVE_SPEED, b, t0) : b \in Bearings}
    \cup {WalkTask(4, WALK_SPEED, b, WALK_DURATION) : b \in Bearings}
    \cup {PickItemTask(0, what, h) : what \in {None, 1, 2, 6, 9}, h \in Hands}
    \cup {PickItemTask(8, 1, "LEFT"), PickItemTask(4, 1, "LEFT")}
    \cup {UseItemTask(0, item, receiver, "LEFT") : item \in {1, 3}, receiver \in {None, 2, 4, 9}}
    \cup {UseItemTask(4, item, None, "RIGHT") : item \in {1, 3}}
    \cup {InventoryUpdateTask(0, h, i, v) : h \in Hands, i \in {1, 2}, v \in {"SWAP", "MERGE"}}
    \cup {DieAndDropTask(d, Spruce_generate_drops(GetEntity(s, 2))) : d \in {2, 9}}
    \cup {CraftTask(c, a) : c \in {0, 8}, a \in {GoodAssembly, BadAssembly}}
    \cup {InventoryUpdateTask(4, "LEFT", 1, "SWAP"), CraftTask(4, GoodAssembly)}

InitTask ==
    /\ \E axe_held \in BOOLEAN,
          spruce_position \in {50, MAX_DISTANCE, MAX_DISTANCE + 1, 150} :
          state = TaskWorld(axe_held, spruce_position)
    /\ HarnessIdle
    /\ EngineIdle
    /\ ClientIdle

\* task.start(state), then task.get_job().
StartTask ==
    /\ phase = "init"
    /\ \E t \in ScenarioTasks(state, now) :
          LET r == TaskStart(t, state)
          IN  /\ task' = r.task
              /\ out' = r
              /\ state' = r.state
              /\ got_job' = TaskGetJob(r.task, now)
    /\ pre' = state
    /\ phase' = "started"
    /\ ops' = ops + 1
    /\ UNCHANGED <<now, removed, handled, engineVars, clientVars>>

\* State's remove by id, while the task is running.
RemoveEntity ==
    /\ phase = "started"
    /\ Cardinality(removed) < MaxRemovals
    /\ \E id \in RegisteredIds(state) :
          /\ state' = DeleteEntity(state, id)
          /\ removed' = removed \cup {id}
    /\ UNCHANGED <<now, pre, task, out, got_job, phase, ops, handled, engineVars, clientVars>>

\* task.finish(state), some time after the start.
FinishTask ==
    /\ phase = "started"
    /\ \E later \in {0, 50} :
          LET r == TaskFinish(task, state, now + later)
          IN  /\ now' = now + later
              /\ task' = r.task
              /\ out' = r
              /\ state' = r.state
    /\ pre' = state
    /\ phase' = "finished"
    /\ ops' = ops + 1
    /\ UNCHANGED <<got_job, removed, handled, engineVars, clientVars>>

NextTask == StartTask \/ RemoveEntity \/ FinishTask

SpecTask == InitTask /\ [][NextTask]_vars

(***************************************************************************)
(* The engine: the dispatch of events to entities and the Job scheduler.   *)
(* An engine step threads a record w through the handlers:                 *)
(*   state, jobs, next_serial, expired, cancelled, stale, error            *)
(* as the variables of the same names.  A registered job is a record       *)
(*   owner    the id of the entity whose task handed the job out           *)
(*   serial   the serial of that task                                      *)
(*   job      the Job                                                      *)
(*   elapsed  the time the scheduler has advanced it by                    *)
(***************************************************************************)
\* Bounds: input events and ticks per run.
MaxInputs == 2
MaxTicks == 2

\* The elapsed intervals a tick may measure.
Intervals == {1, 50, 2000}

Registered(owner, serial, job) ==
    [owner |-> owner, serial |-> serial, job |-> job, elapsed |-> 0]

JobsOf(registry, owner) == {j \in registry : j.owner = owner}

\* Installing a task without cancelling the owner's job first.
RegisterJobKeepsOld(registry, owner, serial, job) ==
    IF job.kind = "None" THEN registry
    ELSE registry \cup {Registered(owner, serial, job)}

\* The scheduler's registry after the owner's task was replaced: the owner's
\* previous job is dropped, the new task's job (if any) takes its place.
RegisterJob(registry, owner, serial, job) ==
    IF job.kind = "None" THEN registry \ JobsOf(registry, owner)
    ELSE (registry \ JobsOf(registry, owner)) \cup {Registered(owner, serial, job)}

\* Entries of the trace.
EventApplied(event, origin) == [what |-> "event", item |-> event, origin |-> origin]
JobAdvanced(j) == [what |-> "advance", item |-> j.job.kind, origin |-> j.serial]
IsApplied(x, event, origin) == x.what = "event" /\ x.origin = origin /\ x.item = event
IsAdvanceOf(x, serial) == x.what = "advance" /\ x.origin = serial
RECURSIVE ActionsSent(_)
ActionsSent(actions) ==
    IF actions = <<>> THEN <<>>
    ELSE <<[what |-> "action", item |-> Head(actions), origin |-> None]>>
         \o ActionsSent(Tail(actions))

\* A hand-over that starts the new task before it finishes the old one.
HandOverStartsFirst(s, id, old_task, at) ==
    LET started == TaskStart(GetEntity(s, id).task, s)
        fin == TaskFinish(old_task, started.state, at)
        job == TaskGetJob(started.task, at)
    IN  [finish |-> fin, start |-> started, job |-> job,
         state |-> IF HasEntity(fin.state, id)
                   THEN SetEntity(fin.state,
                                  [GetEntity(fin.state, id) EXCEPT !.task = started.task])
                   ELSE fin.state]

\* The hand-over after handle_event replaced the task of entity id in State s:
\* the old task's finish, then the new task's start, then the new task's
\* get_job.  When finish raises or the entity is gone, nothing is started.
HandOver(s, id, old_task, at) ==
    CHOOSE r \in
        {IF fin.error # "OK" \/ ~HasEntity(fin.state, id)
         THEN [finish |-> fin, start |-> NoOutcome, job |-> NoJob, state |-> fin.state]
         ELSE CHOOSE r2 \in
                 {[finish |-> fin, start |-> started,
                   job |-> TaskGetJob(started.task, at),
                   state |-> IF HasEntity(started.state, id)
                             THEN SetEntity(started.state,
                                            [GetEntity(started.state, id)
                                                EXCEPT !.task = started.task])
                             ELSE started.state] :
                     started \in {TaskStart(GetEntity(fin.state, id).task, fin.state)}} : TRUE :
            fin \in {TaskFinish(old_task, s, at)}} : TRUE

\* The engine's part of the hand-over: the owner's registered job is replaced
\* by the new task's job.
InstallTask(w, id, old_task, at) ==
    CHOOSE w2 \in
        {IF ho.finish.error # "OK"
         THEN [w EXCEPT !.state = ho.state, !.error = ho.finish.error]
         ELSE IF ~HasEntity(ho.finish.state, id)
         THEN [w EXCEPT !.state = ho.state,
                        !.trace = w.trace \o ActionsSent(ho.finish.actions)]
         ELSE CHOOSE w3 \in
                 {[w EXCEPT !.state = ho.state,
                            !.trace = w.trace \o ActionsSent(ho.finish.actions)
                                              \o ActionsSent(ho.start.actions),
                            !.jobs = registry,
                            !.cancelled = w.cancelled
                                          \cup {[serial |-> j.serial, owner |-> j.owner,
                                                 due |-> at + j.job.duration - j.elapsed] :
                                                    j \in JobsOf(w.jobs, id) \ registry},
                            !.next_serial = w.next_serial + 1] :
                     registry \in {RegisterJob(w.jobs, id, ho.start.task.serial, ho.job)}} : TRUE :
            ho \in {HandOver(w.state, id, old_task, at)}} : TRUE

\* An event on its way; origin is the serial of the task whose job emitted it
\* as a completion event, or None for any other event.
Delivery(event, origin) == [event |-> event, origin |-> origin]

\* One event delivered to the entity it names.
Dispatch(w, event, origin, at, bearing) ==
    IF w.error # "OK" THEN w
    ELSE IF ~HasEntity(w.state, event.receiver) THEN w
    ELSE LET e == GetEntity(w.state, event.receiver)
             h == HandleEvent(e, event, w.next_serial, at, bearing)
             w1 == [w EXCEPT !.state = SetEntity(w.state, h.entity),
                             !.trace = Append(w.trace, EventApplied(event, origin)),
                             !.stale = w.stale \/ (origin # None /\ e.task.serial # origin)]
         IN  IF h.error # "OK" THEN [w1 EXCEPT !.error = h.error]
             ELSE IF h.entity.task.serial = e.task.serial THEN w1
             ELSE InstallTask(w1, e.id, e.task, at)

RECURSIVE DispatchAll(_, _, _, _)
DispatchAll(w, deliveries, at, bearing) ==
    IF deliveries = <<>> THEN w
    ELSE CHOOSE r \in {DispatchAll(v, Tail(deliveries), at, bearing) :
                          v \in {Dispatch(w, Head(deliveries).event,
                                          Head(deliveries).origin, at, bearing)}} : TRUE

\* The damage a tool deals: the axe's chop damage.
DamageAmount(s, tool_id) ==
    IF HasEntity(s, tool_id) /\ HasToolOrWeapon(GetEntity(s, tool_id).kind)
    THEN AXE_CHOP_DAMAGE ELSE 0

\* What a job does when it is advanced: a MovementJob moves its entity by
\* speed * interval and notes the time of the call.
JobStep(s, j, interval, at) ==
    IF j.job.kind = "Movement" /\ HasEntity(s, j.job.entity_id)
    THEN LET e == MoveBy(GetEntity(s, j.job.entity_id), j.job.speed * interval, j.job.bearing)
         IN  SetEntity(s, IF e.task.serial = j.serial /\ e.task.job.kind = "Movement"
                          THEN [e EXCEPT !.task.job.prev_call_time = at]
                          ELSE e)
    ELSE s

\* The events a job emits when it expires: a DamageJob first sends the damage
\* to its receiver; then come the job's completion events.
ExpiryEvents(s, j) ==
    (IF j.job.kind = "Damage"
     THEN <<Delivery([type |-> "Damage", receiver |-> j.job.receiver_id,
                      damage_amount |-> DamageAmount(s, j.job.tool_id)], None)>>
     ELSE <<>>)
    \o [i \in 1..Len(j.job.events) |-> Delivery(j.job.events[i], j.serial)]

\* A scheduler that advances every job it saw at the start of the tick, also
\* one cancelled earlier in the same tick.
AdvanceJobIgnoresCancel(w, j, interval, at, bearing) ==
    IF w.error # "OK" THEN w
    ELSE LET s1 == JobStep(w.state, j, interval, at)
             j1 == [j EXCEPT !.elapsed = j.elapsed + interval]
         IN  IF j1.elapsed >= j.job.duration
             THEN DispatchAll([w EXCEPT !.state = s1,
                                        !.jobs = w.jobs \ {j},
                                        !.trace = Append(w.trace, JobAdvanced(j)),
                                        !.expired = Append(w.expired,
                                                       [serial |-> j.serial, owner |-> j.owner,
                                                        task |-> GetEntity(w.state, j.owner).task.type,
                                                        kind |-> j.job.kind,
                                                        events |-> j.job.events])],
                              ExpiryEvents(s1, j), at, bearing)
             ELSE [w EXCEPT !.state = s1, !.jobs = (w.jobs \ {j}) \cup {j1},
                            !.trace = Append(w.trace, JobAdvanced(j))]

\* A scheduler that lets a job expire without dispatching its completion
\* events in the same tick.
AdvanceJobKeepsEvents(w, j, interval, at, bearing) ==
    IF w.error # "OK" \/ j \notin w.jobs THEN w
    ELSE LET s1 == JobStep(w.state, j, interval, at)
             j1 == [j EXCEPT !.elapsed = j.elapsed + interval]
         IN  IF j1.elapsed >= j.job.duration
             THEN [w EXCEPT !.state = s1,
                            !.jobs = w.jobs \ {j},
                            !.trace = Append(w.trace, JobAdvanced(j)),
                            !.expired = Append(w.expired,
                                           [serial |-> j.serial, owner |-> j.owner,
                                            task |-> GetEntity(w.state, j.owner).task.type,
                                            kind |-> j.job.kind,
                                            events |-> j.job.events])]
             ELSE [w EXCEPT !.state = s1, !.jobs = (w.jobs \ {j}) \cup {j1},
                            !.trace = Append(w.trace, JobAdvanced(j))]

\* One registered job advanced by the interval; on expiry it leaves the
\* registry and its events are dispatched.  A job cancelled earlier in the
\* same tick is no longer registered and is passed over.
AdvanceJob(w, j, interval, at, bearing) ==
    IF w.error # "OK" \/ j \notin w.jobs THEN w
    ELSE LET s1 == JobStep(w.state, j, interval, at)
             j1 == [j EXCEPT !.elapsed = j.elapsed + interval]
         IN  IF j1.elapsed >= j.job.duration
             THEN DispatchAll([w EXCEPT !.state = s1,
                                        !.jobs = w.jobs \ {j},
                                        !.trace = Append(w.trace, JobAdvanced(j)),
                                        !.expired = Append(w.expired,
                                                       [serial |-> j.serial, owner |-> j.owner,
                                                        task |-> GetEntity(w.state, j.owner).task.type,
                                                        kind |-> j.job.kind,
                                                        events |-> j.job.events])],
                              ExpiryEvents(s1, j), at, bearing)
             ELSE [w EXCEPT !.state = s1, !.jobs = (w.jobs \ {j}) \cup {j1},
                            !.trace = Append(w.trace, JobAdvanced(j))]

\* A scheduler that, once a job it advanced is still pending, leaves the
\* remaining jobs for a later tick.
RECURSIVE AdvanceAllStopsAtPending(_, _, _, _, _)
AdvanceAllStopsAtPending(w, order, interval, at, bearing) ==
    IF order = <<>> THEN w
    ELSE CHOOSE r \in {IF \E j \in v.jobs : j.serial = Head(order).serial
                       THEN v
                       ELSE AdvanceAllStopsAtPending(v, Tail(order), interval, at, bearing) :
                          v \in {AdvanceJob(w, Head(order), interval, at, bearing)}} : TRUE

RECURSIVE AdvanceAll(_, _, _, _, _)
AdvanceAll(w, order, interval, at, bearing) ==
    IF order = <<>> THEN w
    ELSE CHOOSE r \in {AdvanceAll(v, Tail(order), interval, at, bearing) :
                          v \in {AdvanceJob(w, Head(order), interval, at, bearing)}} : TRUE

\* All orders in which the jobs of a set can be visited.
Orders(S) ==
    {f \in [1..Cardinality(S) -> S] : \A i, k \in 1..Cardinality(S) : i # k => f[i] # f[k]}

\* The engine's state at the start of a step; the trace starts empty.
World == [state |-> state, jobs |-> jobs, next_serial |-> next_serial, expired |-> expired,
          cancelled |-> cancelled, stale |-> stale, error |-> error, trace |-> <<>>]

Becomes(w) ==
    /\ state' = w.state
    /\ jobs' = w.jobs
    /\ next_serial' = w.next_serial
    /\ expired' = w.expired
    /\ cancelled' = w.cancelled
    /\ stale' = w.stale
    /\ error' = w.error
    /\ trace' = w.trace

\* The events the input side sends: to the pirate (entity 0) and the warrior (4).
InputEvents ==
    {[type |-> ty, receiver |-> 0] : ty \in {"Stop", "Resume", "Conclude"}}
    \cup {[type |-> "StartMoving", receiver |-> 0, bearing |-> b] : b \in Bearings}
    \cup {[type |-> "HandActivation", receiver |-> 0, hand |-> h, object_id |-> o] :
             h \in Hands, o \in {None, 2}}
    \cup {[type |-> "InventorySwap", receiver |-> 0, hand |-> "LEFT", inventory_index |-> 1]}
    \cup {[type |-> "Craft", receiver |-> 0, assembly |-> GoodAssembly]}
    \cup {[type |-> "Resume", receiver |-> 4]}

\* The world the engine starts in: the pirate holds the axe next to a spruce
\* that is either untouched or has been chopped once.
EngineWorld(spruce_health) ==
    LET s == TaskWorld(TRUE, 50)
    IN  SetEntity(s, [GetEntity(s, 2) EXCEPT !.health = spruce_health])

Init ==
    /\ \E h \in {SPRUCE_START_HEALTH, SPRUCE_START_HEALTH - AXE_CHOP_DAMAGE} :
          state = EngineWorld(h)
    /\ HarnessIdle
    /\ EngineIdle
    /\ ClientIdle

\* An input event arrives and is dispatched.
Input ==
    /\ error = "OK"
    /\ inputs < MaxInputs
    /\ \E event \in InputEvents, bearing \in Bearings :
          Becomes(Dispatch(World, event, None, now, bearing))
    /\ inputs' = inputs + 1
    /\ UNCHANGED <<now, ticks, harnessVars, clientVars>>

\* A tick: the clock moves on and every registered job is advanced.
Tick ==
    /\ error = "OK"
    /\ ticks < MaxTicks
    /\ \E interval \in Intervals, bearing \in Bearings, order \in Orders(jobs) :
          /\ now' = now + interval
          /\ Becomes(AdvanceAll(World, order, interval, now + interval, bearing))
    /\ ticks' = ticks + 1
    /\ UNCHANGED <<inputs, harnessVars, clientVars>>

Next == Input \/ Tick

Spec == Init /\ [][Next]_vars

(***************************************************************************)
(* Search scenarios: a pirate at position 0 holding an axe, with three     *)
(* inventorable items and two spruces placed anywhere around it or stored  *)
(* away; PickItemTask.start and UseItemTask.start search for the nearest.  *)
(* The registry order is not the order of the ids.                         *)
(***************************************************************************)
\* Where an item may be: stored (no position), or on the ground in range, at
\* the range's edge or beyond it, on either side of the pirate.
ItemPositions == {None, -50, 50, MAX_DISTANCE, MAX_DISTANCE + 1}
SprucePositions == {-50, 50, MAX_DISTANCE + 1}

SearchWorld(p1, p2, p3, p4, p5) ==
    LET axe == [NewEntity("axe", 6, None) EXCEPT !.stored_by = 0]
        inv == [EmptyInventory EXCEPT !.hands["LEFT"] = AsInfo(axe)]
        pirate == [NewEntity("pirate", 0, 0) EXCEPT !.inventory = inv]
    IN  StateOf(<<pirate, NewEntity("warrior", 7, 10), NewEntity("rocks", 2, p2),
                  NewEntity("rocks", 1, p1), NewEntity("log", 3, p3),
                  NewEntity("spruce", 5, p5), NewEntity("spruce", 4, p4), axe>>)

InitSearch ==
    /\ \E p1 \in ItemPositions, p2 \in ItemPositions, p3 \in ItemPositions,
          p4 \in SprucePositions, p5 \in SprucePositions :
          state = SearchWorld(p1, p2, p3, p4, p5)
    /\ HarnessIdle
    /\ EngineIdle
    /\ ClientIdle

\* start of a PickItemTask without a target, or of a UseItemTask of the axe
\* without a receiver.
SearchStart ==
    /\ phase = "init"
    /\ \E t \in {PickItemTask(0, None, "RIGHT"), UseItemTask(0, 6, None, "LEFT")} :
          \E r \in {TaskStart(t, state)} :
             /\ task' = r.task
             /\ out' = r
             /\ state' = r.state
             /\ got_job' = TaskGetJob(r.task, now)
    /\ pre' = state
    /\ phase' = "searched"
    /\ ops' = ops + 1
    /\ UNCHANGED <<now, removed, handled, engineVars, clientVars>>

NextSearch == SearchStart

SpecSearch == InitSearch /\ [][NextSearch]_vars

(***************************************************************************)
(* Event scenarios (as the entity tests run them): one event is handed to  *)
(* an entity's handle_event; when the handler replaced the entity's task,  *)
(* the old task is finished, the new one started and its job read.         *)
(***************************************************************************)
\* Bound: events delivered per run.
MaxDeliveries == 2

\* The damage amounts delivered: below, at and above the healths reached.
DamageAmounts == {1, 99, 100, 200, 300}

\* Every event of the closed set, addressed to entity id.
EventsFor(id) ==
    {[type |-> ty, receiver |-> id] : ty \in {"Resume", "Stop", "Finished", "Conclude"}}
    \cup {[type |-> "StartMoving", receiver |-> id, bearing |-> b] : b \in Bearings}
    \cup {[type |-> "HandActivation", receiver |-> id, hand |-> h, object_id |-> o] :
             h \in Hands, o \in {None, 0, 1}}
    \cup {[type |-> "InventorySwap", receiver |-> id, hand |-> "LEFT", inventory_index |-> 1]}
    \cup {[type |-> "Craft", receiver |-> id, assembly |-> a] :
             a \in {GoodAssembly, BadAssembly}}
    \cup {[type |-> "Damage", receiver |-> id, damage_amount |-> d] : d \in DamageAmounts}

InitHandle ==
    /\ \E axe_held \in BOOLEAN : state = TaskWorld(axe_held, 50)
    /\ HarnessIdle
    /\ EngineIdle
    /\ ClientIdle

\* entity.handle_event(event) for the pirate, the axe, the spruce or the
\* warrior, and the hand-over if the handler assigned a task.  Only the
\* warrior's handler draws a bearing, only the pirate's tasks read the clock.
Deliver ==
    /\ ops < MaxDeliveries
    /\ handled.error = "OK"
    /\ \E id \in {0, 1, 2, 4} :
          \E bearing \in (IF id = 4 THEN Bearings ELSE {1}) :
          \E later \in (IF id = 0 THEN {0, 50} ELSE {0}) :
          \E event \in EventsFor(id) :
          \E h \in {HandleEvent(GetEntity(state, id), event, next_serial, now + later, bearing)} :
          \E ho \in {HandOver(SetEntity(state, h.entity), id, GetEntity(state, id).task,
                              now + later)} :
             LET replaced == /\ h.error = "OK"
                             /\ h.entity.task.serial # GetEntity(state, id).task.serial
             IN  /\ now' = now + later
                 /\ state' = IF replaced THEN ho.state ELSE SetEntity(state, h.entity)
                 /\ next_serial' = IF replaced THEN next_serial + 1 ELSE next_serial
                 /\ handled' = [receiver |-> id, event |-> event, error |-> h.error,
                                replaced |-> replaced,
                                before |-> SetEntity(state, h.entity),
                                old_task |-> GetEntity(state, id).task,
                                assigned |-> h.entity.task,
                                new_task |-> IF replaced THEN ho.start.task
                                             ELSE h.entity.task,
                                finish |-> IF replaced THEN ho.finish ELSE NoOutcome,
                                start |-> IF replaced THEN ho.start ELSE NoOutcome,
                                job |-> IF replaced THEN ho.job ELSE NoJob]
    /\ pre' = state
    /\ phase' = "handled"
    /\ ops' = ops + 1
    /\ UNCHANGED <<task, out, got_job, removed,
                   jobs, expired, cancelled, stale, error, inputs, ticks, trace, clientVars>>

NextHandle == Deliver

SpecHandle == InitHandle /\ [][NextHandle]_vars

ReferencedIds(t) ==
    CASE t.type \in {"Movement", "Walk"} -> {t.entity_id}
      [] t.type = "PickItem" -> {t.who_id, t.what_id}
      [] t.type = "UseItem" -> {t.performer_id, t.item_id, t.receiver_id}
      [] t.type = "InventoryUpdate" -> {t.performer_id}
      [] t.type = "DieAndDrop" -> {t.dier_id}
      [] t.type = "Craft" -> {t.crafter_id}
      [] OTHER -> {}

\* C4: when an entity the task refers to was removed from the State between
\* start and finish, finish returns normally (it raises nothing).
C4_FinishToleratesRemoval ==
    (phase = "finished" /\ ReferencedIds(task) \cap removed # {}) => out.error = "OK"

\* C15: when an entity the task refers to (its owner, its target) is not in
\* the State at finish time, finish returns normally with an empty Action list
\* and leaves the State as it was.
C15_FinishFailsSoft ==
    (phase = "finished" /\ \E id \in ReferencedIds(task) \ {None} : ~HasEntity(pre, id)) =>
        /\ out.error = "OK"
        /\ out.actions = <<>>
        /\ state = pre

(***************************************************************************)
(* C6-C8: State.merge_entities as run by InventoryUpdateTask.finish.       *)
(***************************************************************************)
\* The last operation was a MERGE on a hand and a pocket that both held something.
MergeRan ==
    /\ phase = "InventoryUpdate.finish"
    /\ task.update_variant = "MERGE"
    /\ GetEntity(pre, task.performer_id).inventory.hands[task.hand].id # None
    /\ GetEntity(pre, task.performer_id).inventory.pockets[task.inventory_index].id # None

SourceEntry == GetEntity(pre, task.performer_id).inventory.hands[task.hand]
TargetEntry == GetEntity(pre, task.performer_id).inventory.pockets[task.inventory_index]
SourceQty == GetEntity(pre, SourceEntry.id).stack
TargetQty == GetEntity(pre, TargetEntry.id).stack
InventoryNow == GetEntity(state, task.performer_id).inventory

\* The merge was of two stacks of the same essence.
MergeOfStacks ==
    /\ MergeRan
    /\ SourceEntry.essence = TargetEntry.essence
    /\ SourceQty # None
    /\ TargetQty # None

\* C6: merging same-essence stacks with S + T <= C empties the hand, removes the
\* source's entity from State, leaves the pocket entry on the target entity and
\* makes the target's stack size S + T.
C6_MergeFit ==
    (MergeOfStacks /\ SourceQty + TargetQty <= MAX_STACK) =>
        /\ InventoryNow.hands[task.hand] = EmptyEntry
        /\ ~HasEntity(state, SourceEntry.id)
        /\ InventoryNow.pockets[task.inventory_index].id = TargetEntry.id
        /\ HasEntity(state, TargetEntry.id)
        /\ GetEntity(state, TargetEntry.id).stack = SourceQty + TargetQty

C6_Witness ==
    /\ MergeOfStacks
    /\ SourceQty + TargetQty <= MAX_STACK
    /\ SourceQty >= 2
    /\ ~HasEntity(state, SourceEntry.id)

\* C7: merging same-essence stacks with S + T > C fills the target to C, leaves
\* S + T - C in the source, keeps both entities registered and both slots on
\* their entities, and conserves the total quantity.
C7_MergeNotFit ==
    (MergeOfStacks /\ SourceQty + TargetQty > MAX_STACK) =>
        /\ HasEntity(state, SourceEntry.id)
        /\ HasEntity(state, TargetEntry.id)
        /\ GetEntity(state, TargetEntry.id).stack = MAX_STACK
        /\ GetEntity(state, SourceEntry.id).stack = SourceQty + TargetQty - MAX_STACK
        /\ InventoryNow.hands[task.hand].id = SourceEntry.id
        /\ InventoryNow.pockets[task.inventory_index].id = TargetEntry.id
        /\ GetEntity(state, SourceEntry.id).stack + GetEntity(state, TargetEntry.id).stack
              = SourceQty + TargetQty

C7_Witness ==
    /\ MergeOfStacks
    /\ SourceQty + TargetQty > MAX_STACK
    /\ GetEntity(state, SourceEntry.id).stack = SourceQty + TargetQty - MAX_STACK

\* C8: a MERGE on a hand and a pocket of different essences changes nothing:
\* not the inventory, not a stack size, not the registry.
C8_MergeDifferentEssences ==
    (MergeRan /\ SourceEntry.essence # TargetEntry.essence) =>
        /\ state = pre
        /\ out.actions = <<[type |-> "UpdateInventory", owner_id |-> task.performer_id,
                            inventory |-> GetEntity(pre, task.performer_id).inventory]>>

C8_Witness ==
    /\ MergeRan
    /\ SourceEntry.essence # TargetEntry.essence
    /\ SourceQty # None
    /\ TargetQty # None
    /\ state = pre

(***************************************************************************)
(* C9-C10: State.craft_entity as run by CraftTask.finish.                  *)
(***************************************************************************)
CrafterInventoryBefore == GetEntity(pre, task.crafter_id).inventory
CrafterInventoryNow == GetEntity(state, task.crafter_id).inventory
CraftItems == Flatten(task.assembly.sources)
NamedIds == {CraftItems[k].actor_id : k \in 1..Len(CraftItems)}

\* The last operation crafted: the crafter exists, a hand is free and the
\* assembly is valid against the inventory.
CraftSatisfied ==
    /\ phase = "Craft.finish"
    /\ HasEntity(pre, task.crafter_id)
    /\ GetFreeHand(CrafterInventoryBefore) # "NONE"
    /\ ValidateAssembly(task.assembly, CrafterInventoryBefore)

\* The sources the assembly uses up, and those it uses in part.
FullyUsedIds ==
    {id \in NamedIds : Demand(CraftItems, id) = EntryOf(CrafterInventoryBefore, id).quantity}
PartlyUsedIds == NamedIds \ FullyUsedIds

CreatedIds == out.actions[1].actors
DeletedIds == out.actions[2].actor_ids

\* C9: on a satisfied recipe, deleted holds exactly the ids of the sources used
\* up (each once), created holds exactly the recipe's one output, the deleted
\* ids are gone from State and the registry's size changes by
\* len(created) - len(deleted).
C9_CraftResult ==
    CraftSatisfied =>
        /\ out.actions[1].type = "CreateActors"
        /\ out.actions[2].type = "DeleteActors"
        /\ SeqToSet(DeletedIds) = FullyUsedIds
        /\ Len(DeletedIds) = Cardinality(FullyUsedIds)
        /\ Len(CreatedIds) = 1
        /\ HasEntity(state, CreatedIds[1])
        /\ ~HasEntity(pre, CreatedIds[1])
        /\ GetEntity(state, CreatedIds[1]).kind = RecipeOf(task.assembly.recipe_codename).output
        /\ \A id \in FullyUsedIds : ~HasEntity(state, id)
        /\ Len(state.order) = Len(pre.order) + Len(CreatedIds) - Len(DeletedIds)
        /\ RegisteredIds(state) = (RegisteredIds(pre) \ FullyUsedIds) \cup {CreatedIds[1]}

\* The test's case: the rocks stack and the log are both used up.
C9_Witness ==
    /\ CraftSatisfied
    /\ PartlyUsedIds = {}
    /\ Cardinality(FullyUsedIds) = 2
    /\ Len(state.order) = Len(pre.order) - 1

\* C10: after a successful craft the inventory agrees with the registry: the
\* entries of used-up items are gone, a partly used stack is decremented in its
\* entry and its entity, entries and entities the assembly does not name are
\* untouched, and the output is in the inventory with quantity 1.
C10_CraftInventory ==
    CraftSatisfied =>
        /\ \A id \in FullyUsedIds : EntryOf(CrafterInventoryNow, id) = EmptyEntry
        /\ \A id \in PartlyUsedIds :
              /\ EntryOf(CrafterInventoryNow, id).quantity
                    = EntryOf(CrafterInventoryBefore, id).quantity - Demand(CraftItems, id)
              /\ GetEntity(state, id).stack = EntryOf(CrafterInventoryNow, id).quantity
        /\ \A e \in Entries(CrafterInventoryBefore) :
              e.id \notin NamedIds =>
                 /\ e \in Entries(CrafterInventoryNow)
                 /\ HasEntity(state, e.id)
                 /\ GetEntity(state, e.id) = GetEntity(pre, e.id)
        /\ EntryOf(CrafterInventoryNow, CreatedIds[1])
              = MkEntry(CreatedIds[1], Essence(GetEntity(state, CreatedIds[1]).kind), 1)
        /\ Cardinality(Entries(CrafterInventoryNow))
              = Cardinality(Entries(CrafterInventoryBefore)) - Cardinality(FullyUsedIds) + 1

\* A craft that uses up the log, takes two of three rocks and leaves the gold.
C10_Witness ==
    /\ CraftSatisfied
    /\ FullyUsedIds = {3}
    /\ PartlyUsedIds = {1}
    /\ EntryOf(CrafterInventoryNow, 2) = MkEntry(2, "GOLD", 2)
    /\ EntryOf(CrafterInventoryNow, 1).quantity = 1

(***************************************************************************)
(* C11: crafting is all-or-nothing.                                        *)
(***************************************************************************)
\* Group g of the assembly cannot be served from the inventory: it is
\* missing, names an item the inventory does not hold or holds under another
\* essence, asks an item for more than its entry has, or does not add up to
\* the ingredient's quantity.
GroupUnsatisfiable(assembly, inv, g) ==
    \/ g > Len(assembly.sources)
    \/ /\ g <= Len(assembly.sources)
       /\ \/ SumQuantity(assembly.sources[g])
                # RecipeOf(assembly.recipe_codename).ingredients[g].quantity
          \/ \E k \in 1..Len(assembly.sources[g]) :
                LET item == assembly.sources[g][k]
                IN  \/ EntryOf(inv, item.actor_id).id = None
                    \/ EntryOf(inv, item.actor_id).essence # item.essence
                    \/ item.essence
                          # RecipeOf(assembly.recipe_codename).ingredients[g].essence
                    \/ EntryOf(inv, item.actor_id).quantity < item.quantity

\* The last operation was a craft_entity whose preconditions did not hold.
CraftRejected ==
    /\ phase = "Craft.finish"
    /\ HasEntity(pre, task.crafter_id)
    /\ \/ GetFreeHand(CrafterInventoryBefore) = "NONE"
       \/ ~ValidateAssembly(task.assembly, CrafterInventoryBefore)

\* C11: validate_assembly is false whenever a group of the recipe cannot be
\* served, and craft_entity on failed preconditions reports empty created
\* and deleted lists and leaves the inventory and the registry as they were.
C11_CraftAllOrNothing ==
    /\ (/\ phase = "Craft.finish"
        /\ HasEntity(pre, task.crafter_id)
        /\ HasRecipe(task.assembly.recipe_codename)
        /\ \E g \in 1..Len(RecipeOf(task.assembly.recipe_codename).ingredients) :
              GroupUnsatisfiable(task.assembly, CrafterInventoryBefore, g))
          => ~ValidateAssembly(task.assembly, CrafterInventoryBefore)
    /\ CraftRejected =>
          /\ state = pre
          /\ out.actions =
                <<[type |-> "CreateActors", actors |-> <<>>],
                  [type |-> "DeleteActors", actor_ids |-> <<>>],
                  [type |-> "UpdateInventory", owner_id |-> task.crafter_id,
                   inventory |-> CrafterInventoryBefore],
                  [type |-> "CraftEnd", crafter_id |-> task.crafter_id]>>

\* The inventory changed under the assembly: an earlier craft made an axe and
\* used up a source that this assembly, well-formed for the recipe, names.
C11_Witness ==
    /\ CraftRejected
    /\ ops = 2
    /\ \E id \in RegisteredIds(pre) : GetEntity(pre, id).kind = "axe"
    /\ task.assembly.recipe_codename = "axe"
    /\ Len(task.assembly.sources) = 2
    /\ \E id \in NamedIds : ~HasEntity(pre, id) /\ id # 9
    /\ state = pre

(***************************************************************************)
(* C12-C13: damage to the spruce (entity 2) in the event scenarios.        *)
(***************************************************************************)
\* The last delivery was a DamageEvent to the spruce.
SpruceDamaged ==
    /\ phase = "handled"
    /\ handled.receiver = 2
    /\ handled.event.type = "Damage"

HealthBefore == GetEntity(pre, 2).health
DamageDealt == handled.event.damage_amount

\* C12: handle_damage(d) on health h leaves health h - d and reports alive
\* exactly if h - d > 0; the spruce's handler, which starts the death on a
\* report of not alive, does so exactly if h - d <= 0.
C12_AliveIffHealthLeft ==
    SpruceDamaged =>
        /\ GetEntity(state, 2).health = HealthBefore - DamageDealt
        /\ IsAlive(HandleDamage(GetEntity(pre, 2), DamageDealt))
              <=> (HealthBefore - DamageDealt > 0)
        /\ handled.replaced <=> ~(HealthBefore - DamageDealt > 0)

\* Damage equal to the health: reported dead.
C12_Witness ==
    /\ SpruceDamaged
    /\ DamageDealt = HealthBefore
    /\ handled.replaced
    /\ GetEntity(state, 2).health = 0

\* C13: a DamageEvent of at least the spruce's health makes its task a
\* DieAndDropTask for its own id, a smaller one leaves the task as it was;
\* either way the spruce is still registered when handle_event returns.
C13_DamageStartsDeath ==
    SpruceDamaged =>
        /\ handled.error = "OK"
        /\ HasEntity(state, 2)
        /\ DamageDealt >= HealthBefore =>
              /\ handled.replaced
              /\ GetEntity(state, 2).task.type = "DieAndDrop"
              /\ GetEntity(state, 2).task.dier_id = 2
              /\ GetEntity(state, 2).task.serial # GetEntity(pre, 2).task.serial
        /\ DamageDealt < HealthBefore =>
              /\ ~handled.replaced
              /\ GetEntity(state, 2).task = GetEntity(pre, 2).task

\* The spruce survived one damage and died of the next.
C13_Witness ==
    /\ SpruceDamaged
    /\ ops = 2
    /\ HealthBefore < SPRUCE_START_HEALTH
    /\ HealthBefore > 0
    /\ GetEntity(pre, 2).task.type = "Idle"
    /\ DamageDealt >= HealthBefore
    /\ GetEntity(state, 2).task.type = "DieAndDrop"

(***************************************************************************)
(* C14: the nearest-entity searches, as the tasks' start uses them.        *)
(***************************************************************************)
\* What the search of the last start returned.
Found == IF task.type = "PickItem" THEN task.what_id ELSE task.receiver_id

\* The entities the search is for: deliverers of CARGO for a pick, absorbers
\* of the axe's PAIN or CARGO for a use.
Wanted(id) ==
    IF task.type = "PickItem" THEN HasInventorable(GetEntity(pre, id).kind)
    ELSE HasDamageable(GetEntity(pre, id).kind) \/ HasInventory(GetEntity(pre, id).kind)

DistanceFromOrigin(id) == Abs(GetEntity(pre, id).position - GetEntity(pre, 0).position)

\* The wanted entities, other than the searcher, that have a position within
\* MAX_DISTANCE of it.
InRange ==
    {id \in RegisteredIds(pre) \ {0} :
        /\ Wanted(id)
        /\ GetEntity(pre, id).position # None
        /\ DistanceFromOrigin(id) <= MAX_DISTANCE}

RegistryIndex(id) == CHOOSE i \in 1..Len(pre.order) : pre.order[i] = id

\* C14: the search returns none exactly if no wanted entity lies within
\* max_distance, and otherwise a wanted entity with a position, within
\* max_distance, that no other is nearer than and that comes first in the
\* registry among the equally near.
C14_FindClosest ==
    phase = "searched" =>
        IF InRange = {} THEN Found = None
        ELSE /\ Found \in InRange
             /\ \A c \in InRange :
                   \/ DistanceFromOrigin(Found) < DistanceFromOrigin(c)
                   \/ /\ DistanceFromOrigin(Found) = DistanceFromOrigin(c)
                      /\ RegistryIndex(Found) <= RegistryIndex(c)

\* Two items equally near on opposite sides, a third farther but in range,
\* one item stored away: the search returns the tied item registered first,
\* which has the larger id.
C14_Witness ==
    /\ phase = "searched"
    /\ task.type = "PickItem"
    /\ GetEntity(pre, 1).position = -50
    /\ GetEntity(pre, 2).position = 50
    /\ GetEntity(pre, 3).position = MAX_DISTANCE
    /\ GetEntity(pre, 6).position = None
    /\ Found = 2

(***************************************************************************)
(* C1, C2, C5: the engine's jobs                                           *)
(***************************************************************************)
TaskTypes ==
    {"Idle", "Movement", "Walk", "PickItem", "UseItem", "InventoryUpdate", "DieAndDrop",
     "Craft"}

CancelledSerials == {c.serial : c \in cancelled}

\* C1: replacing an entity's task cancels the job registered for that
\* entity: every registered job belongs to its owner's current task, a
\* cancelled job never expires and so never emits its completion events,
\* and no completion event reaches a task other than the one whose job
\* emitted it.
C1_ReplacementCancelsJob ==
    /\ \A j \in jobs :
          HasEntity(state, j.owner) => GetEntity(state, j.owner).task.serial = j.serial
    /\ \A i \in 1..Len(expired) : expired[i].serial \notin CancelledSerials
    /\ ~stale

\* A job was cancelled by a replacement, its deadline has passed, and its
\* owner has since been sent the completion event of a later job.
C1_Witness ==
    \E c \in cancelled :
        /\ now >= c.due
        /\ \E i \in 1..Len(expired) :
              /\ expired[i].owner = c.owner
              /\ expired[i].serial > c.serial
              /\ expired[i].events # <<>>

\* C2: every registered entity has exactly one current task, and at most
\* one job is registered for an entity id; every registered job is owned by
\* a registered entity.
C2_OneTaskOneJob ==
    /\ \A id \in RegisteredIds(state) : GetEntity(state, id).task.type \in TaskTypes
    /\ \A j \in jobs : j.owner \in RegisteredIds(state)
    /\ \A id \in RegisteredIds(state) : Cardinality(JobsOf(jobs, id)) <= 1

\* The warrior's WalkTask was replaced by another WalkTask while its job was
\* registered; the warrior has one job, the one of the current task.
C2_Witness ==
    /\ \E c \in cancelled : c.owner = 4
    /\ GetEntity(state, 4).task.type = "Walk"
    /\ Cardinality(JobsOf(jobs, 4)) = 1

\* C5: once the duration of a timed task's job has elapsed, however the
\* ticks split it, the job has expired and has emitted its completion event
\* exactly once: no registered job is overdue, no job expires twice, and
\* every expired MovementJob or WaitJob emitted exactly one event.
C5_CompletionEmittedOnce ==
    /\ \A j \in jobs : j.job.kind \in {"Movement", "Wait"} => j.elapsed < j.job.duration
    /\ \A i, k \in 1..Len(expired) : expired[i].serial = expired[k].serial => i = k
    /\ \A i \in 1..Len(expired) :
          expired[i].kind \in {"Movement", "Wait"} => Len(expired[i].events) = 1

(***************************************************************************)
(* C16: the pirate's handle_event over the closed set of events.           *)
(***************************************************************************)
\* C16: every event of the closed set handed to the pirate (entity 0), in
\* whatever task it is, is handled without error and leaves the pirate with
\* one task of a known kind; a handler that assigns a task assigns a new
\* task object.
C16_PirateHandlesEveryEvent ==
    (phase = "handled" /\ handled.receiver = 0) =>
        /\ handled.error = "OK"
        /\ GetEntity(state, 0).task.type \in TaskTypes
        /\ handled.replaced =>
              GetEntity(state, 0).task.serial # handled.old_task.serial

(***************************************************************************)
(* C17-C18: the warrior (entity 4) and the hand-over of tasks.             *)
(***************************************************************************)
\* The last delivery was a Resume or a Finished event to the warrior.
WarriorWoken ==
    /\ phase = "handled"
    /\ handled.receiver = 4
    /\ handled.event.type \in {"Resume", "Finished"}

\* C17: on Resume and on Finished the warrior's task is replaced by a new
\* WalkTask; its start returns exactly one MovementAction for the warrior
\* with speed 1.0 and duration 1.0, and its job is a MovementJob for the same
\* id, speed, bearing and duration with the completion events
\* [FinishedEvent(id)].
C17_WarriorWalks ==
    WarriorWoken =>
        /\ handled.error = "OK"
        /\ handled.replaced
        /\ handled.new_task.type = "Walk"
        /\ handled.new_task.serial # handled.old_task.serial
        /\ GetEntity(state, 4).task = handled.new_task
        /\ handled.start.actions =
              <<[type |-> "Movement", actor_id |-> 4, speed |-> WALK_SPEED,
                 bearing |-> handled.new_task.bearing, duration |-> WALK_DURATION]>>
        /\ handled.job.kind = "Movement"
        /\ handled.job.entity_id = 4
        /\ handled.job.speed = WALK_SPEED
        /\ handled.job.bearing = handled.new_task.bearing
        /\ handled.job.duration = WALK_DURATION
        /\ handled.job.events = <<FinishedEvent(4)>>

\* The test's second step: a walking warrior is sent Finished.
C17_Witness ==
    /\ WarriorWoken
    /\ handled.event.type = "Finished"
    /\ handled.old_task.type = "Walk"
    /\ handled.new_task.type = "Walk"
    /\ handled.new_task.bearing # handled.old_task.bearing
    /\ handled.job.events = <<FinishedEvent(4)>>

\* C18: when an event replaced a task, the replaced task's finish ran first,
\* on the State as the handler left it; the new task's start ran on the State
\* finish left; the job is the get_job of the task as start left it.  The
\* finish of a replaced idle task yields no Actions, that of a replaced
\* WalkTask exactly one LocalizeAction with the entity's id and position.
C18_HandOverOrder ==
    (phase = "handled" /\ handled.replaced) =>
        /\ handled.finish = TaskFinish(handled.old_task, handled.before, now)
        /\ handled.start = TaskStart(handled.assigned, handled.finish.state)
        /\ handled.new_task = handled.start.task
        /\ handled.job = TaskGetJob(handled.new_task, now)
        /\ handled.old_task.type = "Idle" => handled.finish.actions = <<>>
        /\ handled.old_task.type = "Walk" =>
              handled.finish.actions =
                 <<[type |-> "Localize", actor_id |-> handled.receiver,
                    position |-> GetEntity(pre, handled.receiver).position]>>

\* The order shows: the pirate was picking up the axe when a second
\* HandActivation came; the finish of the first pick took the axe off the
\* ground, so the start of the second found nothing to pick.
C18_Witness ==
    /\ phase = "handled"
    /\ handled.replaced
    /\ handled.old_task.type = "PickItem"
    /\ handled.assigned.type = "PickItem"
    /\ handled.assigned.what_id = None
    /\ Len(handled.finish.actions) = 2
    /\ handled.start.actions = <<>>
    /\ GetEntity(handled.before, 1).position # None

(***************************************************************************)
(* C19: DieAndDropTask against the State's registry.                       *)
(***************************************************************************)
\* A DieAndDropTask was started (and perhaps finished) for an entity that was
\* in the State, and nothing else took entities out of the State meanwhile.
DieAndDropRan ==
    /\ phase \in {"started", "finished"}
    /\ task.type = "DieAndDrop"
    /\ removed = {}
    /\ HasEntity(pre, task.dier_id)

\* The logs lying at a position.
LogsAt(s, position) ==
    {id \in RegisteredIds(s) :
        GetEntity(s, id).kind = "log" /\ GetEntity(s, id).position = position}

\* C19: after a DieAndDropTask has run for an entity that exists, its three
\* drops are registered in the State and the dying entity is no longer
\* registered.
C19_DierLeavesState ==
    DieAndDropRan =>
        /\ Cardinality(LogsAt(state, GetEntity(pre, task.dier_id).position)) = Len(task.drops)
        /\ ~HasEntity(state, task.dier_id)

\* What the code does instead: the drops are registered, the dying entity is
\* announced as deleted and stays in the registry.
C19_DierStays ==
    DieAndDropRan =>
        /\ Cardinality(LogsAt(state, GetEntity(pre, task.dier_id).position)) = Len(task.drops)
        /\ HasEntity(state, task.dier_id)
        /\ phase = "started" =>
              /\ Len(out.actions) = 2
              /\ out.actions[2] = [type |-> "DeleteActors", actor_ids |-> <<task.dier_id>>]

(***************************************************************************)
(* C20: entity ids.                                                        *)
(***************************************************************************)
\* No id is registered twice, and every registered entity carries the id it
\* is registered under.
UniqueIds(s) ==
    /\ \A i, j \in 1..Len(s.order) : s.order[i] = s.order[j] => i = j
    /\ DOMAIN s.ent = RegisteredIds(s)
    /\ \A id \in RegisteredIds(s) : GetEntity(s, id).id = id

\* The entities of a list have pairwise distinct ids.
DistinctIds(list) == \A i, j \in 1..Len(list) : list[i].id = list[j].id => i = j

\* The generated initial State is built from 99 entities of distinct ids.
GeneratedIdsDistinct == \A list \in GeneratedLists : Len(list) = 99 /\ DistinctIds(list)

\* The ids a task method's CreateActorsActions report.
ReportedIds(actions) ==
    UNION {{actions[i].actors[k] : k \in 1..Len(actions[i].actors)} :
              i \in {n \in 1..Len(actions) : actions[n].type = "CreateActors"}}

CreatedCount(actions) ==
    IF \E n \in 1..Len(actions) : actions[n].type = "CreateActors"
    THEN Len(actions[CHOOSE n \in 1..Len(actions) : actions[n].type = "CreateActors"].actors)
    ELSE 0

\* A task method that ran on the State s0 reported ids that were not live in
\* s0, are pairwise distinct and are registered in the State it left.
ReportsFreshIds(s0, result) ==
    /\ ReportedIds(result.actions) \cap RegisteredIds(s0) = {}
    /\ Cardinality(ReportedIds(result.actions)) = CreatedCount(result.actions)
    /\ ReportedIds(result.actions) \subseteq RegisteredIds(result.state)
    /\ RegisteredIds(result.state) \ RegisteredIds(s0) = ReportedIds(result.actions)

\* C20: ids are unique among the live entities of every reachable State and
\* of the generated initial State; the entities a drop or a craft adds are
\* registered under fresh ids, and the CreateActorsAction reports those ids.
C20_UniqueIds ==
    /\ GeneratedIdsDistinct
    /\ UniqueIds(state)
    /\ (phase = "handled" /\ handled.replaced) =>
          /\ ReportsFreshIds(handled.before, handled.finish)
          /\ ReportsFreshIds(handled.finish.state, handled.start)

\* A spruce is felled a second time: its first three logs lie there, and the
\* second DieAndDropTask's start registers and reports three more.
C20_Witness ==
    /\ phase = "handled"
    /\ handled.replaced
    /\ handled.old_task.type = "DieAndDrop"
    /\ handled.new_task.type = "DieAndDrop"
    /\ Cardinality(ReportedIds(handled.start.actions)) = 3
    /\ Cardinality(LogsAt(handled.before, GetEntity(state, handled.receiver).position)) = 3
    /\ Cardinality(LogsAt(state, GetEntity(state, handled.receiver).position)) = 6

(***************************************************************************)
(* C21: the order of a tick.  The input events that arrive between two     *)
(* Tick steps belong to the later one.                                     *)
(***************************************************************************)
\* The Actions of a trace, in the order they were sent.
RECURSIVE SentActions(_)
SentActions(tr) ==
    IF tr = <<>> THEN <<>>
    ELSE (IF Head(tr).what = "action" THEN <<Head(tr).item>> ELSE <<>>) \o SentActions(Tail(tr))

\* The Actions the hand-over after an input event emits, in emission order:
\* those of the replaced task's finish, then those of the new task's start.
EmittedOnInput(event, bearing) ==
    LET e == GetEntity(state, event.receiver)
        h == HandleEvent(e, event, next_serial, now, bearing)
        ho == HandOver(SetEntity(state, h.entity), e.id, e.task, now)
    IN  IF h.error # "OK" \/ h.entity.task.serial = e.task.serial \/ ho.finish.error # "OK"
        THEN <<>>
        ELSE ho.finish.actions \o ho.start.actions

\* An input step advances no job and no clock; it applies the input event and
\* nothing else, and what it sends out are the Actions of that event's
\* hand-over in emission order.
InputStepInOrder ==
    /\ now' = now
    /\ expired' = expired
    /\ \A j \in jobs' : j \in jobs \/ j.elapsed = 0
    /\ Len(trace') >= 1
    /\ trace'[1].what = "event"
    /\ trace'[1].origin = None
    /\ trace'[1].item \in InputEvents
    /\ \A i \in 2..Len(trace') : trace'[i].what = "action"
    /\ \E bearing \in Bearings : SentActions(trace') = EmittedOnInput(trace'[1].item, bearing)

\* A tick applies no input event: every event it applies was emitted by a job
\* advanced earlier in the same tick.  The completion events of every job that
\* expired in the tick are applied in that tick, after the job was advanced;
\* Actions are sent only after an event was applied.
TickStepInOrder ==
    /\ \A i \in 1..Len(trace') :
          trace'[i].what = "event" =>
             \E k \in 1..(i - 1) :
                /\ trace'[k].what = "advance"
                /\ \/ trace'[k].origin = trace'[i].origin
                   \/ trace'[k].item = "Damage" /\ trace'[i].item.type = "Damage"
    /\ \A i \in 1..Len(trace') :
          trace'[i].what = "action" => \E k \in 1..(i - 1) : trace'[k].what = "event"
    /\ error' = "OK" =>
          \A n \in (Len(expired) + 1)..Len(expired') :
             \A m \in 1..Len(expired'[n].events) :
                \E k, i \in 1..Len(trace') :
                   /\ k < i
                   /\ IsAdvanceOf(trace'[k], expired'[n].serial)
                   /\ IsApplied(trace'[i], expired'[n].events[m], expired'[n].serial)
    /\ Cardinality({i \in 1..Len(trace') : trace'[i].what = "advance"}) <= Cardinality(jobs)

\* C21: within one tick the input events are applied before the jobs are
\* advanced, the completion events the jobs produce are applied in the same
\* tick and so before any input of the next, and the Actions go out in the
\* order in which they were emitted.
C21_TickOrder ==
    [][/\ inputs' = inputs + 1 => InputStepInOrder
       /\ ticks' = ticks + 1 => TickStepInOrder]_vars

\* A job expired in a tick and its completion event was applied then; now the
\* next input has been applied and its Actions have been sent.
C21_Witness ==
    /\ ticks >= 1
    /\ inputs >= 2
    /\ \E n \in 1..Len(expired) : expired[n].events # <<>>
    /\ Len(trace) >= 2
    /\ trace[1].what = "event"
    /\ trace[1].item \in InputEvents
    /\ trace[2].what = "action"

(***************************************************************************)
(* C22: entities do not block one another.                                 *)
(***************************************************************************)
\* A tick that ran to its end reached every job registered at its start: the
\* job was advanced by the interval (and expired if its time was up), unless
\* an event applied earlier in the same tick replaced its owner's task.
EveryJobReached ==
    \A j \in jobs :
       \/ /\ \E i \in 1..Len(trace') : IsAdvanceOf(trace'[i], j.serial)
          /\ IF j.elapsed + (now' - now) >= j.job.duration
             THEN \E n \in (Len(expired) + 1)..Len(expired') : expired'[n].serial = j.serial
             ELSE [j EXCEPT !.elapsed = j.elapsed + (now' - now)] \in jobs'
       \/ \E c \in cancelled' \ cancelled : c.serial = j.serial

\* An input event touches the task and the job of its receiver only.
OthersUntouched ==
    /\ \A j \in jobs : j.owner # trace'[1].item.receiver => j \in jobs'
    /\ \A id \in RegisteredIds(state) \cap RegisteredIds(state') :
          id # trace'[1].item.receiver => GetEntity(state', id).task = GetEntity(state, id).task

PI == 12

\* math.degrees(x) and math.radians(x)
degrees(x) == (x * 180) \div PI
radians(x) == (x * PI) \div 180

\* A conversion that takes phi = pi to the western half.
spherical_to_geographical_radians_west(r, theta, phi) ==
    <<r, PI \div 2 - theta, IF phi < PI THEN phi ELSE phi - 2 * PI>>

spherical_to_geographical_radians(r, theta, phi) ==
    <<r, PI \div 2 - theta, IF phi <= PI THEN phi ELSE phi - 2 * PI>>

spherical_to_geographical_degrees(r, theta, phi) ==
    LET c == spherical_to_geographical_radians(r, theta, phi)
    IN  <<c[1], degrees(c[2]), degrees(c[3])>>

geographical_radians_to_spherical(r, lat, lon) ==
    <<r, PI \div 2 - lat, IF lon >= 0 THEN lon ELSE lon + 2 * PI>>

geographical_degrees_to_spherical(r, lat, lon) ==
    geographical_radians_to_spherical(r, radians(lat), radians(lon))

\* The coordinates tried: r, theta in [0, pi] and phi in [0, 2 pi]; r, lat in
\* [-90, 90] and lon in (-180, 180], in steps of 15 degrees.
Radii == {1, 2}
SphericalCoordinates == {<<r, theta, phi>> : r \in Radii, theta \in 0..PI, phi \in 0..(2 * PI)}
GeographicalCoordinates ==
    {<<r, 15 * a, 15 * b>> : r \in Radii, a \in (-6)..6, b \in (-11)..12}

InitGeo ==
    /\ state = EmptyState
    /\ HarnessIdle
    /\ EngineIdle
    /\ stage = NoStage
    /\ controls = NoControls
    /\ \/ \E c \in SphericalCoordinates :
             geo = [NoGeo EXCEPT !.step = "given", !.from = "spherical", !.given = c]
       \/ \E c \in GeographicalCoordinates :
             geo = [NoGeo EXCEPT !.step = "given", !.from = "geographical", !.given = c]

\* The conversion of the given coordinates to the other system.
Convert ==
    /\ geo.step = "given"
    /\ geo' = [geo EXCEPT
                 !.step = "converted",
                 !.converted =
                    IF geo.from = "spherical"
                    THEN spherical_to_geographical_degrees(geo.given[1], geo.given[2], geo.given[3])
                    ELSE geographical_degrees_to_spherical(geo.given[1], geo.given[2], geo.given[3])]
    /\ UNCHANGED <<state, now, harnessVars, engineVars, stage, controls>>

\* The conversion of the result back to the system the coordinates came in.
ConvertBack ==
    /\ geo.step = "converted"
    /\ geo' = [geo EXCEPT
                 !.step = "restored",
                 !.restored =
                    IF geo.from = "spherical"
                    THEN geographical_degrees_to_spherical(geo.converted[1], geo.converted[2],
                                                           geo.converted[3])
                    ELSE spherical_to_geographical_degrees(geo.converted[1], geo.converted[2],
                                                           geo.converted[3])]
    /\ UNCHANGED <<state, now, harnessVars, engineVars, stage, controls>>

NextGeo == Convert \/ ConvertBack

SpecGeo == InitGeo /\ [][NextGeo]_vars

(***************************************************************************)
(* C23: spherical and geographical coordinates.                            *)
(***************************************************************************)
\* C23: a spherical (r, theta, phi) with phi below 2 pi becomes (r, lat, lon)
\* with lat = 90 - theta in degrees and lon in (-180, 180], and the
\* conversion back gives (r, theta, phi) again; phi = 2 pi becomes lon 0 and
\* comes back as phi 0; a geographical (r, lat, lon) with lon in (-180, 180]
\* comes back unchanged from its spherical form.
C23_CoordinatesInverse ==
    /\ (geo.from = "spherical" /\ geo.step \in {"converted", "restored"}) =>
          /\ geo.converted[1] = geo.given[1]
          /\ geo.converted[2] = 90 - degrees(geo.given[2])
          /\ geo.converted[3] > -180 /\ geo.converted[3] <= 180
          /\ geo.given[3] = 2 * PI => geo.converted[3] = 0
    /\ (geo.from = "spherical" /\ geo.step = "restored") =>
          IF geo.given[3] = 2 * PI
          THEN geo.restored = <<geo.given[1], geo.given[2], 0>>
          ELSE geo.restored = geo.given
    /\ (geo.from = "geographical" /\ geo.step \in {"converted", "restored"}) =>
          /\ geo.converted[2] >= 0 /\ geo.converted[2] <= PI
          /\ geo.converted[3] >= 0 /\ geo.converted[3] < 2 * PI
    /\ (geo.from = "geographical" /\ geo.step = "restored") => geo.restored = geo.given

\* The test's fourth row, (1, 0.75 pi, 1.5 pi), gave (1, -45, -90) and came
\* back.
C23_Witness ==
    /\ geo.step = "restored"
    /\ geo.given = <<1, 9, 18>>
    /\ geo.converted = <<1, -45, -90>>
    /\ geo.restored = geo.given

(***************************************************************************)
(* The warrior's walk without end.  Ticks are not counted here.  To keep   *)
(* the walk in finitely many states, positions are taken along the great   *)
(* circle (they wrap at its length, and are counted from a point far       *)
(* enough back that no position met within a step is negative, where the   *)
(* value of None lies), the clock is read relative to the current step,    *)
(* the engine's logs of expired and cancelled jobs are not kept, and the    *)
(* warrior's task object is renumbered after every step.                   *)
(***************************************************************************)
\* Bound: the length of the great circle the warrior walks on.
Circumference == 12

\* The engine's state after a step, with the history dropped.
Forget(w) ==
    LET e == GetEntity(w.state, 4)
        e1 == [e EXCEPT !.position = Circumference + SetMax(Intervals)
                                        + (e.position % Circumference),
                        !.task.serial = IF e.task.type = "Idle" THEN 0 ELSE 1]
    IN  [w EXCEPT !.state = SetEntity(w.state, e1),
                  !.jobs = {[j EXCEPT !.serial = 1] : j \in w.jobs},
                  !.next_serial = 2,
                  !.expired = <<>>,
                  !.cancelled = {}]

InitWalk ==
    /\ state = EngineWorld(SPRUCE_START_HEALTH)
    /\ HarnessIdle
    /\ EngineIdle
    /\ ClientIdle

\* A ResumeEvent for the warrior arrives and is dispatched.
Wake ==
    /\ error = "OK"
    /\ inputs < MaxInputs
    /\ \E bearing \in Bearings :
          \E w \in {Dispatch(World, [type |-> "Resume", receiver |-> 4], None, now, bearing)} :
             Becomes(Forget(w))
    /\ inputs' = inputs + 1
    /\ UNCHANGED <<now, ticks, harnessVars, clientVars>>

\* A tick of any length: every registered job is advanced.
WalkTick ==
    /\ error = "OK"
    /\ \E interval \in Intervals, bearing \in Bearings, order \in Orders(jobs) :
          \E w \in {AdvanceAll(World, order, interval, now, bearing)} :
             Becomes(Forget(w))
    /\ UNCHANGED <<now, inputs, ticks, harnessVars, clientVars>>

NextWalk == Wake \/ WalkTick

\* The engine keeps ticking.
SpecWalk == InitWalk /\ [][NextWalk]_vars /\ WF_vars(WalkTick)

(***************************************************************************)
(* C24: a warrior that was resumed walks forever.                          *)
(***************************************************************************)
\* The warrior's task is a WalkTask whose job is registered and will emit
\* FinishedEvent(4).
Walking ==
    /\ GetEntity(state, 4).task.type = "Walk"
    /\ \E j \in jobs :
          /\ j.owner = 4
          /\ j.serial = GetEntity(state, 4).task.serial
          /\ j.job.kind = "Movement"
          /\ j.job.duration = WALK_DURATION
          /\ j.job.events = <<FinishedEvent(4)>>

\* In the last step the warrior's job expired, its FinishedEvent was applied
\* and a new WalkTask was started: its MovementAction went out.
WalkRenewed ==
    \E k, i, n \in 1..Len(trace) :
       /\ k < i /\ i < n
       /\ trace[k].what = "advance"
       /\ IsApplied(trace[i], FinishedEvent(4), trace[k].origin)
       /\ trace[n].what = "action"
       /\ trace[n].item.type = "Movement"
       /\ trace[n].item.actor_id = 4

HasWalkTask == GetEntity(state, 4).task.type = "Walk"

\* C24: a warrior that has a WalkTask has its job registered, with
\* FinishedEvent(4) to emit; it never has another kind of task again, and
\* under fair ticking its WalkTask is renewed again and again.
C24_WalksForever ==
    /\ [](HasWalkTask => Walking)
    /\ [][HasWalkTask => HasWalkTask']_vars
    /\ [](HasWalkTask => []<>WalkRenewed)

C24_Witness ==
    /\ Walking
    /\ WalkRenewed
    /\ inputs = 1

(***************************************************************************)
(* C25: the gate of PickItemTask.start.                                    *)
(***************************************************************************)
\* A PickItemTask was started, and nothing has happened since; task.what_id
\* is the target given, or else the one the search found, or None.
PickStarted == phase = "started" /\ removed = {} /\ task.type = "PickItem"

\* A target is known, picker and target are in the State, and their distance
\* is defined and at most MAX_DISTANCE.
PickGateOpen ==
    /\ task.what_id # None
    /\ HasEntity(pre, task.who_id)
    /\ HasEntity(pre, task.what_id)
    /\ GetEntity(pre, task.who_id).position # None
    /\ GetEntity(pre, task.what_id).position # None
    /\ Abs(GetEntity(pre, task.who_id).position - GetEntity(pre, task.what_id).position)
          <= MAX_DISTANCE

\* C25: PickItemTask.start returns exactly [PickStartAction(who, what)] and
\* makes a WaitJob of PICK_DURATION with [FinishedEvent(who)] when the gate is
\* open; otherwise it returns nothing and get_job gives none.  It leaves the
\* State as it was.
C25_PickStartGated ==
    PickStarted =>
        /\ state = pre
        /\ IF PickGateOpen
           THEN /\ out.actions = <<[type |-> "PickStart", who |-> task.who_id,
                                    what |-> task.what_id]>>
                /\ got_job = WaitJob(PICK_DURATION, <<FinishedEvent(task.who_id)>>)
           ELSE /\ out.actions = <<>>
                /\ got_job = NoJob

\* The pirate is told to pick the axe that lies 0.4 away.
C25_Witness ==
    /\ PickStarted
    /\ PickGateOpen
    /\ task.who_id = 0
    /\ task.what_id = 1
    /\ GetEntity(pre, 1).position = 40
    /\ Len(out.actions) = 1
    /\ got_job.kind = "Wait"

-----------------------------------------------------------------------------
\* C26: CraftTask.start answers [CraftStartAction(crafter)] and holds a
\* WaitJob of CRAFT_DURATION completing with FinishedEvent(crafter) exactly
\* when the crafter exists, has an inventory, has a free hand and the assembly
\* validates against that inventory; otherwise it answers nothing and holds no
\* job.  In both cases the state, inventories included, is left as it was.

CraftStarted == phase = "Craft.start"

CraftGateOpen ==
    /\ HasEntity(pre, task.crafter_id)
    /\ HasInventory(GetEntity(pre, task.crafter_id).kind)
    /\ GetFreeHand(GetEntity(pre, task.crafter_id).inventory) # "NONE"
    /\ ValidateAssembly(task.assembly, GetEntity(pre, task.crafter_id).inventory)

C26_CraftStartGated ==
    CraftStarted =>
        /\ state = pre
        /\ IF CraftGateOpen
           THEN /\ out.actions = <<[type |-> "CraftStart", crafter_id |-> task.crafter_id]>>
                /\ got_job = WaitJob(CRAFT_DURATION, <<FinishedEvent(task.crafter_id)>>)
           ELSE /\ out.actions = <<>>
                /\ got_job = NoJob

\* Reached: a crafter whose hands are both full is refused an assembly that
\* validates, and another crafter is accepted.
C26_Witness ==
    /\ CraftStarted
    /\ HasEntity(pre, task.crafter_id)
    /\ HasInventory(GetEntity(pre, task.crafter_id).kind)
    /\ GetFreeHand(GetEntity(pre, task.crafter_id).inventory) = "NONE"
    /\ ValidateAssembly(task.assembly, GetEntity(pre, task.crafter_id).inventory)
    /\ out.actions = <<>>

C26_Accepted == CraftStarted /\ CraftGateOpen /\ got_job # NoJob

C26_NoInventory ==
    /\ CraftStarted
    /\ HasEntity(pre, task.crafter_id)
    /\ ~HasInventory(GetEntity(pre, task.crafter_id).kind)

-----------------------------------------------------------------------------
\* C27: UseItemTask.start, once performer, item and receiver are in State and
\* in reach, looks at the first of the item's claims that the receiver
\* absorbs: for PAIN the task holds DamageJob(performer, receiver, item, hand)
\* completing with [FinishedEvent(performer)]; for any other claim, or none,
\* it holds no job.  start and finish return no Actions and leave the State
\* as it was.

UseStarted == phase = "started" /\ removed = {} /\ task.type = "UseItem"

UseFinished == phase = "finished" /\ task.type = "UseItem"

\* The receiver start settled on is in State and in reach of the performer.
UseReached ==
    /\ HasEntity(pre, task.performer_id)
    /\ HasEntity(pre, task.item_id)
    /\ task.receiver_id # None
    /\ HasEntity(pre, task.receiver_id)
    /\ ~TooFar(GetEntity(pre, task.performer_id), GetEntity(pre, task.receiver_id))

UseClaim ==
    GetFirstAbsorbed(GetEntity(pre, task.receiver_id).kind,
                     DeliveryClaims(GetEntity(pre, task.item_id).kind))

C27_UseItemDispatch ==
    /\ UseStarted =>
          /\ state = pre
          /\ out.actions = <<>>
          /\ out.error = "OK"
          /\ IF UseReached /\ UseClaim = "PAIN"
             THEN got_job = DamageJob(task.performer_id, task.receiver_id, task.item_id,
                                      task.hand, <<FinishedEvent(task.performer_id)>>)
             ELSE got_job = NoJob
    /\ UseFinished =>
          /\ state = pre
          /\ out.actions = <<>>
          /\ out.error = "OK"

\* Reached: the axe used on the pirate, who absorbs its second claim (CARGO)
\* and not its first (PAIN), makes no job.
C27_Witness ==
    /\ UseStarted
    /\ UseReached
    /\ DeliveryClaims(GetEntity(pre, task.item_id).kind) = <<"PAIN", "CARGO">>
    /\ UseClaim = "CARGO"
    /\ got_job = NoJob

C27_Damage == UseStarted /\ UseReached /\ UseClaim = "PAIN" /\ got_job # NoJob

C27_NothingAbsorbed == UseStarted /\ UseReached /\ UseClaim = "NONE"

C27_Finished == UseFinished /\ task.job # NoJob

-----------------------------------------------------------------------------
\* C28: a task that meets an entity without the feature it is about to use
\* (the picker's, performer's or crafter's inventory, the picked item's
\* inventorable) stops there: no exception, and the State with its
\* inventories as before; PickItemTask.finish, InventoryUpdateTask.finish and
\* CraftTask.start then return no Actions.  No task operation ends in an
\* attribute error, and the features the handlers assert are the ones the
\* constructors set.

\* The operation just run needs a feature that its entity does not have.
FeatureLacking ==
    \/ /\ phase = "finished"
       /\ task.type = "PickItem"
       /\ task.what_id # None
       /\ HasEntity(pre, task.who_id)
       /\ HasEntity(pre, task.what_id)
       /\ \/ ~HasInventory(GetEntity(pre, task.who_id).kind)
          \/ ~HasInventorable(GetEntity(pre, task.what_id).kind)
    \/ /\ phase = "finished"
       /\ task.type = "InventoryUpdate"
       /\ HasEntity(pre, task.performer_id)
       /\ ~HasInventory(GetEntity(pre, task.performer_id).kind)
    \/ /\ phase = "finished" \/ (phase = "started" /\ removed = {})
       /\ task.type = "Craft"
       /\ HasEntity(pre, task.crafter_id)
       /\ ~HasInventory(GetEntity(pre, task.crafter_id).kind)

C28_FeaturesChecked ==
    /\ HasInventory("pirate")
    /\ HasDamageable("spruce")
    /\ out.error # "AttributeError"
    /\ FeatureLacking =>
          /\ out.error = "OK"
          /\ state = pre
          /\ (task.type # "Craft" \/ phase = "started") => out.actions = <<>>

\* Reached: the warrior, who has no inventory, finishes picking the axe that
\* lies within reach.
C28_Witness ==
    /\ FeatureLacking
    /\ task.type = "PickItem"
    /\ ~HasInventory(GetEntity(pre, task.who_id).kind)
    /\ HasInventorable(GetEntity(pre, task.what_id).kind)
    /\ ~TooFar(GetEntity(pre, task.who_id), GetEntity(pre, task.what_id))

C28_NotInventorable ==
    /\ FeatureLacking
    /\ task.type = "PickItem"
    /\ HasInventory(GetEntity(pre, task.who_id).kind)
    /\ ~TooFar(GetEntity(pre, task.who_id), GetEntity(pre, task.what_id))

C28_NoInventoryToUpdate == FeatureLacking /\ task.type = "InventoryUpdate"

C28_NoInventoryToCraft == FeatureLacking /\ task.type = "Craft" /\ phase = "finished"

-----------------------------------------------------------------------------
(***************************************************************************)
(* animations.py: the client turns each Action it receives into an        *)
(* Animation and plays the animations tick by tick.  The list of playing  *)
(* animations is kept by world.World, which is not part of the sources:   *)
(* adding follows the comment on Animation.get_actor_id, ticking follows  *)
(* Animation.expired.                                                      *)
(***************************************************************************)
\* The keys of _ANIMITION_CONSTRUCTORS.
ActionTypes ==
    {"Configuration", "CraftStart", "CraftEnd", "CreateActors", "DeleteActors", "Movement",
     "Localize", "StatUpdate", "PickStart", "PickEnd", "UpdateInventory", "Damage"}

\* Animation.__init__(timeout), called by a subclass named kind that keeps
\* the fields it read from the action.
Animation(kind, timeout, fields, at) ==
    [kind |-> kind, timeout |-> timeout, start_time |-> at, expired |-> FALSE,
     fields |-> fields]

ConfigurationAnimation(action, at) ==
    Animation("ConfigurationAnimation", None,
              <<action.hero_actor_id, action.elevation_function>>, at)
CraftStartAnimation(action, at) ==
    Animation("CraftStartAnimation", None, <<action.crafter_id>>, at)
CraftEndAnimation(action, at) ==
    Animation("CraftEndAnimation", None, <<action.crafter_id>>, at)
CreateActorsAnimation(action, at) ==
    Animation("CreateActorsAnimation", None, <<action.actors>>, at)
DeleteActorsAnimation(action, at) ==
    Animation("DeleteActorsAnimation", None, <<action.actor_ids>>, at)
\* MovementAnimation also counts its ticks.
MovementAnimation(action, at) ==
    [kind |-> "MovementAnimation", timeout |-> action.duration, start_time |-> at,
     expired |-> FALSE, fields |-> <<action.actor_id, action.speed, action.bearing>>,
     tick_count |-> 0]
LocalizeAnimation(action, at) ==
    Animation("LocalizeAnimation", None, <<action.actor_id, action.position>>, at)
StatUpdateAnimation(action, at) ==
    Animation("StatUpdateAnimation", None, <<action.actor_id, action.stats>>, at)
PickStartAnimation(action, at) ==
    Animation("PickStartAnimation", None, <<action.who, action.what>>, at)
PickEndAnimation(action, at) ==
    Animation("PickEndAnimation", None, <<action.who>>, at)
UpdateInventoryAnimation(action, at) ==
    Animation("UpdateInventoryAnimation", None, <<action.owner_id, action.inventory>>, at)
DamageAnimation(action, at) ==
    Animation("DamageAnimation", None,
              <<action.dealer_id, action.receiver_id, action.variant, action.hand>>, at)

\* Animation.get_actor_id(): None, unless the subclass overrides it.
get_actor_id(animation) ==
    IF animation.kind \in {"MovementAnimation", "LocalizeAnimation"}
    THEN animation.fields[1]
    ELSE None

\* An expired() that asks the clock alone once there is a timeout.
Animation_expired_by_clock(animation, at) ==
    IF animation.timeout # None THEN animation.start_time + animation.timeout < at
    ELSE animation.expired

\* Animation.expired()
Animation_expired(animation, at) ==
    IF animation.expired THEN TRUE
    ELSE IF animation.timeout # None THEN animation.start_time + animation.timeout < at
    ELSE FALSE

\* Animation.expire()
expire(animation) == [animation EXCEPT !.expired = TRUE]

\* A call a tick makes on the scene, the world or the gui.
Call(animation, callee, args) == [by |-> animation.kind, callee |-> callee, args |-> args]

\* tick(interval, scene, world, gui): the calls it makes, in order.
tick_effects(animation, interval) ==
    CASE animation.kind = "ConfigurationAnimation" ->
            <<Call(animation, "scene.configure", animation.fields)>>
      [] animation.kind \in {"CraftStartAnimation", "CraftEndAnimation"} -> <<>>
      [] animation.kind = "CreateActorsAnimation" ->
            <<Call(animation, "scene.create_actors", animation.fields),
              Call(animation, "world.create_renderers", animation.fields)>>
      [] animation.kind = "DeleteActorsAnimation" ->
            <<Call(animation, "scene.delete_actors", animation.fields),
              Call(animation, "world.delete_renderers", animation.fields)>>
      [] animation.kind = "MovementAnimation" ->
            <<Call(animation, "actor.move_by",
                   <<animation.fields[1], animation.fields[2] * interval,
                     animation.fields[3]>>)>>
            \o (IF animation.tick_count = 0
                THEN <<Call(animation, "world.play_animation",
                            <<animation.fields[1], "walk">>)>>
                ELSE <<>>)
      [] animation.kind = "LocalizeAnimation" ->
            <<Call(animation, "actor.set_position", animation.fields),
              Call(animation, "world.play_animation", <<animation.fields[1], "idle">>)>>
      [] animation.kind = "StatUpdateAnimation" ->
            <<Call(animation, "gui.set_stats", <<animation.fields[2]>>)>>
      [] animation.kind = "PickStartAnimation" ->
            <<Call(animation, "world.play_animation", <<animation.fields[1], "pick">>)>>
      [] animation.kind = "PickEndAnimation" ->
            <<Call(animation, "world.play_animation", <<animation.fields[1], "idle">>)>>
      [] animation.kind = "UpdateInventoryAnimation" ->
            <<Call(animation, "gui.set_inventory", <<animation.fields[2]>>),
              Call(animation, "scene.hide_actors", <<animation.fields[2]>>),
              Call(animation, "world.attach_skeleton",
                   <<animation.fields[1], animation.fields[2].hands["LEFT"], "LEFT_ITEM">>),
              Call(animation, "world.attach_skeleton",
                   <<animation.fields[1], animation.fields[2].hands["RIGHT"], "RIGHT_ITEM">>)>>
      [] animation.kind = "DamageAnimation" ->
            <<Call(animation, "world.play_animation",
                   <<animation.fields[1],
                     IF animation.fields[4] = "LEFT" THEN "swing_left" ELSE "swing_right">>),
              Call(animation, "world.play_animation", <<animation.fields[2], "damaged">>)>>

\* MovementAnimation.tick: the animation after it; it counts the tick and does
\* not expire.
MovementAnimation_tick(animation) == [animation EXCEPT !.tick_count = @ + 1]

\* A tick that has no animation expire itself.
tick_lasting(animation) ==
    IF animation.kind = "MovementAnimation" THEN MovementAnimation_tick(animation)
    ELSE animation

\* tick(): the animation after its tick; every animation but
\* MovementAnimation expires itself at the end of its tick.
tick(animation) ==
    IF animation.kind = "MovementAnimation" THEN MovementAnimation_tick(animation)
    ELSE expire(animation)

\* The calls of one tick of each of the animations, in order.
RECURSIVE tick_calls(_, _)
tick_calls(animations, interval) ==
    IF Len(animations) = 0 THEN <<>>
    ELSE tick_effects(Head(animations), interval) \o tick_calls(Tail(animations), interval)

Made(animation) == [error |-> "OK", animation |-> animation]
NoAnimation == Animation("None", None, <<>>, 0)
NotMade(exception) == [error |-> exception, animation |-> NoAnimation]

\* An animation_from_action that passes over an action it has no constructor for.
animation_from_action_lenient(action, at) ==
    CASE action.type = "Configuration" -> Made(ConfigurationAnimation(action, at))
      [] action.type = "CraftStart" -> Made(CraftStartAnimation(action, at))
      [] action.type = "CraftEnd" -> Made(CraftEndAnimation(action, at))
      [] action.type = "CreateActors" -> Made(CreateActorsAnimation(action, at))
      [] action.type = "DeleteActors" -> Made(DeleteActorsAnimation(action, at))
      [] action.type = "Movement" -> Made(MovementAnimation(action, at))
      [] action.type = "Localize" -> Made(LocalizeAnimation(action, at))
      [] action.type = "StatUpdate" -> Made(StatUpdateAnimation(action, at))
      [] action.type = "PickStart" -> Made(PickStartAnimation(action, at))
      [] action.type = "PickEnd" -> Made(PickEndAnimation(action, at))
      [] action.type = "UpdateInventory" -> Made(UpdateInventoryAnimation(action, at))
      [] action.type = "Damage" -> Made(DamageAnimation(action, at))
      [] OTHER -> NotMade("OK")

\* animation_from_action(action): the constructor registered for the action's
\* type, applied to it; the lookup of a type that is not a key raises KeyError.
animation_from_action(action, at) ==
    CASE action.type = "Configuration" -> Made(ConfigurationAnimation(action, at))
      [] action.type = "CraftStart" -> Made(CraftStartAnimation(action, at))
      [] action.type = "CraftEnd" -> Made(CraftEndAnimation(action, at))
      [] action.type = "CreateActors" -> Made(CreateActorsAnimation(action, at))
      [] action.type = "DeleteActors" -> Made(DeleteActorsAnimation(action, at))
      [] action.type = "Movement" -> Made(MovementAnimation(action, at))
      [] action.type = "Localize" -> Made(LocalizeAnimation(action, at))
      [] action.type = "StatUpdate" -> Made(StatUpdateAnimation(action, at))
      [] action.type = "PickStart" -> Made(PickStartAnimation(action, at))
      [] action.type = "PickEnd" -> Made(PickEndAnimation(action, at))
      [] action.type = "UpdateInventory" -> Made(UpdateInventoryAnimation(action, at))
      [] action.type = "Damage" -> Made(DamageAnimation(action, at))
      [] OTHER -> NotMade("KeyError")

\* The playing animations that a new animation does not replace.
KeptBeside(animations, animation) ==
    SelectSeq(animations,
              LAMBDA a : get_actor_id(animation) = None
                         \/ get_actor_id(a) # get_actor_id(animation))

\* An add_animation that cancels nothing.
add_animation_beside(animations, animation) == Append(animations, animation)

\* The world takes a new animation: one that names an actor cancels and
\* replaces the playing animations that name the same actor.
add_animation(animations, animation) == Append(KeptBeside(animations, animation), animation)

\* The world plays one tick: every playing animation ticks, and the expired
\* ones are dropped.
tick_animations(animations, at) ==
    SelectSeq([i \in 1..Len(animations) |-> tick(animations[i])],
              LAMBDA a : ~Animation_expired(a, at))

\* Bounds: actions received and ticks played.
MaxActions == 3
MaxStageTicks == 2

\* The Actions the tasks emit, the two the engine emits itself, and two
\* objects that are no Action of the set.
StageActions ==
    {[type |-> "Configuration", hero_actor_id |-> 0, elevation_function |-> "flat"],
     [type |-> "CraftStart", crafter_id |-> 0],
     [type |-> "CraftEnd", crafter_id |-> 0],
     [type |-> "CreateActors", actors |-> <<7>>],
     [type |-> "DeleteActors", actor_ids |-> <<7>>],
     [type |-> "StatUpdate", actor_id |-> 0, stats |-> "stats"],
     [type |-> "PickEnd", who |-> 0],
     [type |-> "UpdateInventory", owner_id |-> 0, inventory |-> EmptyInventory],
     [type |-> "Damage", dealer_id |-> 0, receiver_id |-> 2, variant |-> "CHOP",
      hand |-> "LEFT"],
     [type |-> "Action"],
     FinishedEvent(0)}
    \cup {[type |-> "Movement", actor_id |-> a, speed |-> WALK_SPEED, bearing |-> 1,
           duration |-> WALK_DURATION] : a \in {0, 4}}
    \cup {[type |-> "Localize", actor_id |-> a, position |-> 30] : a \in {0, 4}}
    \cup {[type |-> "PickStart", who |-> a, what |-> 1] : a \in {0, 4}}

InitStage ==
    /\ state = EmptyState
    /\ now = 0
    /\ HarnessIdle
    /\ EngineIdle
    /\ ClientIdle

\* The client receives an action: animation_from_action, then the world adds
\* the animation.  An exception ends the client.
ReceiveAction ==
    /\ stage.error = "OK"
    /\ stage.added < MaxActions
    /\ \E action \in StageActions :
          \E made \in {animation_from_action(action, stage.clock)} :
             stage' = [stage EXCEPT
                          !.animations = IF made.error = "OK" /\ made.animation.kind # "None"
                                         THEN add_animation(@, made.animation)
                                         ELSE @,
                          !.error = made.error,
                          !.added = @ + 1,
                          !.last = [step |-> "action", action |-> action, made |-> made,
                                    before |-> stage.animations]]
    /\ UNCHANGED <<state, now, harnessVars, engineVars, geo, controls>>

\* The world plays a tick, half a second or a second and a bit after the last.
PlayTick ==
    /\ stage.error = "OK"
    /\ stage.ticked < MaxStageTicks
    /\ \E interval \in {50, 101} :
          stage' = [stage EXCEPT
                       !.animations = tick_animations(@, stage.clock + interval),
                       !.calls = tick_calls(stage.animations, interval),
                       !.clock = @ + interval,
                       !.ticked = @ + 1,
                       !.last = [step |-> "tick", before |-> stage.animations]]
    /\ UNCHANGED <<state, now, harnessVars, engineVars, geo, controls>>

NextStage == ReceiveAction \/ PlayTick

SpecStage == InitStage /\ [][NextStage]_vars

-----------------------------------------------------------------------------
\* C29: animation_from_action knows the twelve Action variants and no other:
\* an action of one of them becomes the Animation named after it, which the
\* world then plays; an object of any other type makes the call fail
\* (KeyError), no animation is added and the client does not go on.

ActionReceived == stage.last.step = "action"

C29_Exhaustive ==
    /\ Cardinality(ActionTypes) = 12
    /\ ActionReceived =>
          IF stage.last.action.type \in ActionTypes
          THEN /\ stage.last.made.error = "OK"
               /\ stage.last.made.animation.kind = stage.last.action.type \o "Animation"
               /\ stage.error = "OK"
               /\ stage.animations # <<>>
               /\ stage.animations[Len(stage.animations)] = stage.last.made.animation
          ELSE /\ stage.last.made.error = "KeyError"
               /\ stage.error = "KeyError"
               /\ stage.animations = stage.last.before

\* Reached: after two actions were animated, an object that is no Action of
\* the set makes animation_from_action fail.
C29_Witness ==
    /\ ActionReceived
    /\ stage.last.action.type \notin ActionTypes
    /\ stage.error = "KeyError"
    /\ Len(stage.animations) = 2

C29_DamageAnimated ==
    /\ ActionReceived
    /\ stage.last.action.type = "Damage"
    /\ stage.last.made.animation.fields = <<0, 2, "CHOP", "LEFT">>

-----------------------------------------------------------------------------
\* C30: among the playing animations at most one names any given actor.
\* An animation names an actor exactly when it was made from a Movement or
\* a Localize action, and then it names that action's actor; when the world
\* takes it, the playing animations that name the same actor are gone and
\* all others stay.  An animation that names no actor removes nothing.

ActorBound(animation) == get_actor_id(animation) # None

OnePerActor(animations) ==
    \A i, j \in 1..Len(animations) :
        (i # j /\ ActorBound(animations[i])) =>
            get_actor_id(animations[i]) # get_actor_id(animations[j])

AnimationAdded == ActionReceived /\ stage.last.made.error = "OK"

C30_OnePerActor ==
    /\ OnePerActor(stage.animations)
    /\ AnimationAdded =>
          IF stage.last.action.type \in {"Movement", "Localize"}
          THEN /\ get_actor_id(stage.last.made.animation) = stage.last.action.actor_id
               /\ stage.animations =
                     Append(SelectSeq(stage.last.before,
                                      LAMBDA a : get_actor_id(a) # stage.last.action.actor_id),
                            stage.last.made.animation)
          ELSE /\ get_actor_id(stage.last.made.animation) = None
               /\ stage.animations = Append(stage.last.before, stage.last.made.animation)

\* Reached: warrior 4 is walking and the pirate is moving and picking;
\* LocalizeAction(4) arrives and takes the place of the warrior's
\* MovementAnimation only.
C30_Witness ==
    /\ AnimationAdded
    /\ stage.last.action.type = "Localize"
    /\ stage.last.action.actor_id = 4
    /\ Len(stage.last.before) = 2
    /\ \E i \in 1..2 : /\ stage.last.before[i].kind = "MovementAnimation"
                       /\ get_actor_id(stage.last.before[i]) = 4
    /\ Len(stage.animations) = 2
    /\ \A i \in 1..2 : stage.animations[i].kind # "MovementAnimation"

\* Reached: a PickStartAnimation for actor 4 joins the actor's
\* MovementAnimation without ending it.
C30_Unbound ==
    /\ AnimationAdded
    /\ stage.last.action.type = "PickStart"
    /\ stage.last.action.who = 4
    /\ \E i \in 1..Len(stage.animations) :
          /\ stage.animations[i].kind = "MovementAnimation"
          /\ get_actor_id(stage.animations[i]) = 4

-----------------------------------------------------------------------------
\* C31: PickItemTask.finish succeeds exactly when the target is known, picker
\* and item are in State, the picker has an inventory, the item is
\* inventorable and the two are within MAX_DISTANCE.  Then the chosen hand
\* holds the item's entry, the item is stored by the picker and has no
\* position, nothing else in State changed, and the Actions are
\* [PickEndAction(who), UpdateInventoryAction(who, inventory)].  Otherwise
\* the State is as before and no Action is returned.

PickFinished == phase = "finished" /\ task.type = "PickItem"

PickSucceeds ==
    /\ task.what_id # None
    /\ HasEntity(pre, task.who_id)
    /\ HasEntity(pre, task.what_id)
    /\ HasInventory(GetEntity(pre, task.who_id).kind)
    /\ HasInventorable(GetEntity(pre, task.what_id).kind)
    /\ ~TooFar(GetEntity(pre, task.who_id), GetEntity(pre, task.what_id))

C31_PickFinishEffect ==
    PickFinished =>
        /\ out.error = "OK"
        /\ IF PickSucceeds
           THEN LET picker == GetEntity(state, task.who_id)
                    item == GetEntity(state, task.what_id)
                IN  /\ picker.inventory.hands[task.hand] = AsInfo(GetEntity(pre, task.what_id))
                    /\ \A h \in Hands \ {task.hand} :
                          picker.inventory.hands[h] =
                             GetEntity(pre, task.who_id).inventory.hands[h]
                    /\ picker.inventory.pockets = GetEntity(pre, task.who_id).inventory.pockets
                    /\ item.stored_by = task.who_id
                    /\ item.position = None
                    /\ RegisteredIds(state) = RegisteredIds(pre)
                    /\ \A id \in RegisteredIds(pre) \ {task.who_id, task.what_id} :
                          GetEntity(state, id) = GetEntity(pre, id)
                    /\ out.actions = <<[type |-> "PickEnd", who |-> task.who_id],
                                       [type |-> "UpdateInventory", owner_id |-> task.who_id,
                                        inventory |-> picker.inventory]>>
           ELSE /\ state = pre
                /\ out.actions = <<>>

\* Reached: the pirate picked the axe off the ground into a hand.
C31_Witness ==
    /\ PickFinished
    /\ PickSucceeds
    /\ GetEntity(pre, task.what_id).position # None
    /\ GetHand(GetEntity(state, task.who_id).inventory, task.hand) = task.what_id

\* Reached: the item was taken out of State while the pick was under way.
C31_Failed == PickFinished /\ ~PickSucceeds /\ got_job # NoJob

-----------------------------------------------------------------------------
(***************************************************************************)
(* Two pirates and two items on the ground: each pirate, when a            *)
(* HandActivationEvent finds the hand empty, gets a PickItemTask           *)
(* (entities.py:126-131); the tasks start and finish in any order.         *)
(***************************************************************************)
\* Bound: starts and finishes of PickItemTasks in one behaviour.
MaxPickOps == 4

Pickers == {0, 7}

PickWorld(second_position) ==
    StateOf(<<NewEntity("pirate", 0, 0), NewEntity("axe", 1, 40),
              NewEntity("rocks", 3, 90), NewEntity("pirate", 7, second_position)>>)

InitPick ==
    /\ \E second_position \in {30, 80, 150} : state = PickWorld(second_position)
    /\ HarnessIdle
    /\ EngineIdle
    /\ ClientIdle

\* What a finish did: the item it stored, or that it stored nothing.
PickRecord(t, result) ==
    [what |-> IF result.actions = <<>> THEN "refused" ELSE "picked",
     item |-> t.what_id, origin |-> t.who_id]

\* An idle pirate activates an empty hand: PickItemTask(who, object, hand).start.
PickBegin ==
    /\ ops < MaxPickOps
    /\ \E who \in Pickers, what \in {None, 1, 3}, hand \in Hands :
          /\ GetEntity(state, who).task.type = "Idle"
          /\ GetHand(GetEntity(state, who).inventory, hand) = None
          /\ \E r \in {PickItemTask_start(Stamped(PickItemTask(who, what, hand), 1), state)} :
                /\ state' = SetEntity(r.state, [GetEntity(r.state, who) EXCEPT !.task = r.task])
                /\ out' = r
                /\ task' = r.task
    /\ pre' = state
    /\ phase' = "Pick.start"
    /\ ops' = ops + 1
    /\ UNCHANGED <<now, got_job, removed, handled, engineVars, clientVars>>

\* A pirate's PickItemTask finishes (its job's FinishedEvent, or a StopEvent,
\* replaces it by an IdleTask).
PickEnd ==
    /\ ops < MaxPickOps
    /\ \E who \in Pickers :
          /\ GetEntity(state, who).task.type = "PickItem"
          /\ \E r \in {PickItemTask_finish(GetEntity(state, who).task, state)} :
                /\ state' = SetEntity(r.state, [GetEntity(r.state, who) EXCEPT !.task = IdleTask])
                /\ out' = r
                /\ task' = r.task
                /\ trace' = Append(trace, PickRecord(r.task, r))
    /\ pre' = state
    /\ phase' = "Pick.finish"
    /\ ops' = ops + 1
    /\ UNCHANGED <<now, got_job, removed, handled, jobs, next_serial, expired, cancelled,
                   stale, error, inputs, ticks, clientVars>>

NextPick == PickBegin \/ PickEnd

SpecPick == InitPick /\ [][NextPick]_vars

\* C32: an item is never held by two entities.  Every item is named by at
\* most one inventory slot in all of State; an item that is named is stored
\* by the owner of that inventory and has no position, and an item with a
\* storer is named by its storer's inventory.  Of the finishes that were
\* after one item, only the first that finds it in reach stores it: every
\* later one returns no Actions and changes nothing.

\* The (owner, hand) and (owner, pocket) pairs of State that name the item.
HandHoldings(s, item_id) ==
    {h \in RegisteredIds(s) \X Hands :
        /\ HasInventory(GetEntity(s, h[1]).kind)
        /\ GetEntity(s, h[1]).inventory.hands[h[2]].id = item_id}

PocketHoldings(s, item_id) ==
    {h \in RegisteredIds(s) \X Pockets :
        /\ HasInventory(GetEntity(s, h[1]).kind)
        /\ GetEntity(s, h[1]).inventory.pockets[h[2]].id = item_id}

Holders(s, item_id) ==
    {h[1] : h \in HandHoldings(s, item_id)} \cup {h[1] : h \in PocketHoldings(s, item_id)}

HeldOnce(s) ==
    \A item_id \in RegisteredIds(s) :
        /\ Cardinality(HandHoldings(s, item_id)) + Cardinality(PocketHoldings(s, item_id)) <= 1
        /\ \A holder \in Holders(s, item_id) :
              /\ GetEntity(s, item_id).stored_by = holder
              /\ GetEntity(s, item_id).position = None
        /\ GetEntity(s, item_id).stored_by # None =>
              GetEntity(s, item_id).stored_by \in Holders(s, item_id)

PickedOnce ==
    \A i, j \in 1..Len(trace) :
        (i < j /\ trace[i].what = "picked" /\ trace[i].item = trace[j].item) =>
            trace[j].what = "refused"

C32_NeverHeldTwice ==
    /\ HeldOnce(state)
    /\ PickedOnce
    /\ (phase = "Pick.finish" /\ out.actions = <<>>) => state = [pre EXCEPT
           !.ent[task.who_id].task = IdleTask]

\* Reached: both pirates started picking the axe within reach; the first to
\* finish holds it and the second was refused.
C32_Witness ==
    /\ Len(trace) = 2
    /\ trace[1].what = "picked"
    /\ trace[2].what = "refused"
    /\ trace[1].item = 1
    /\ trace[2].item = 1
    /\ trace[1].origin # trace[2].origin
    /\ ~TooFar(GetEntity(PickWorld(30), 7), GetEntity(PickWorld(30), 1))
    /\ GetEntity(state, 7).position = 30
    /\ Holders(state, 1) = {trace[1].origin}

-----------------------------------------------------------------------------
\* C33: a spruce yields at most three Logs, however many DamageEvents reach
\* it after its health has dropped to zero or below.

SpruceLogs == LogsAt(state, GetEntity(state, 2).position)

C33_DropsAtMostOnce == HasEntity(state, 2) => Cardinality(SpruceLogs) <= 3

\* What the code does instead: every DamageEvent that leaves the health at
\* zero or below assigns a new DieAndDropTask, whose start adds three Logs.
C33_DropsEveryDeath ==
    (phase = "handled" /\ handled.error = "OK" /\ handled.receiver = 2
        /\ handled.event.type = "Damage") =>
        /\ GetEntity(state, 2).health <= 0 =>
              /\ handled.replaced
              /\ handled.new_task.type = "DieAndDrop"
              /\ Cardinality(SpruceLogs)
                    = Cardinality(LogsAt(handled.before, GetEntity(state, 2).position)) + 3
        /\ GetEntity(state, 2).health > 0 => ~handled.replaced

-----------------------------------------------------------------------------
\* C34: what the pirate is moved on behalf of one MovementTask, by its
\* MovementJob tick after tick and by the task's finish, is at most
\* speed * TIMEOUT.

\* The pirate's MovementTask is finished in this step (an input event
\* replaced it).
MovementFinishes ==
    /\ inputs' = inputs + 1
    /\ error' = "OK"
    /\ GetEntity(state, 0).task.type = "Movement"
    /\ GetEntity(state', 0).task.serial # GetEntity(state, 0).task.serial

\* What the task's job has moved the pirate so far; a job that is no longer
\* registered has run for TIMEOUT at least.
MovedByJob ==
    IF \E j \in jobs : j.serial = GetEntity(state, 0).task.serial
    THEN LET j == CHOOSE j \in jobs : j.serial = GetEntity(state, 0).task.serial
         IN  GetEntity(state, 0).task.speed * j.elapsed
    ELSE GetEntity(state, 0).task.speed * TIMEOUT

MovedByFinish == Abs(GetEntity(state', 0).position - GetEntity(state, 0).position)

C34_MovementBounded ==
    [][MovementFinishes =>
          MovedByJob + MovedByFinish <= GetEntity(state, 0).task.speed * TIMEOUT]_vars

\* What the code does: finish adds speed * (now - job.get_prev_call_time()),
\* which is nothing while the job is called every tick and everything since
\* the job's last call once it has timed out.
C34_FinishAddsSinceLastCall ==
    [][MovementFinishes =>
          /\ MovedByFinish = GetEntity(state, 0).task.speed
                                * (now - GetEntity(state, 0).task.job.prev_call_time)
          /\ (\E j \in jobs : j.serial = GetEntity(state, 0).task.serial) =>
                MovedByFinish = 0]_vars

-----------------------------------------------------------------------------
\* C35: the UseItemTask that a HandActivationEvent gives the pirate takes
\* the event's object as its receiver whenever the event names one, id 0
\* included, and searches for the nearest absorbing entity only when the
\* event names none.

\* A HandActivationEvent found the hand full, and the UseItemTask started.
UseHandled ==
    /\ phase = "handled"
    /\ handled.event.type = "HandActivation"
    /\ handled.replaced
    /\ handled.assigned.type = "UseItem"
    /\ handled.finish.error = "OK"

\* What the search gives on the State the task was started on.
SearchedReceiver ==
    FindClosestAbsorbingWithin(
        handled.finish.state, handled.receiver,
        DeliveryClaims(GetEntity(handled.finish.state, handled.assigned.item_id).kind),
        MAX_DISTANCE)

C35_ExplicitReceiverUsed ==
    UseHandled =>
        IF handled.event.object_id # None
        THEN handled.new_task.receiver_id = handled.event.object_id
        ELSE handled.new_task.receiver_id = SearchedReceiver

\* What the code does: an object id of 0 is taken for no object.
C35_ZeroIsSearched ==
    UseHandled =>
        IF handled.event.object_id \notin {None, 0}
        THEN handled.new_task.receiver_id = handled.event.object_id
        ELSE handled.new_task.receiver_id = SearchedReceiver

\* Reached: the pirate (id 0), axe in hand, activates the hand on itself; the
\* task's receiver is the spruce, which it sets out to damage.
C35_SelfBecomesSpruce ==
    /\ UseHandled
    /\ handled.event.object_id = 0
    /\ handled.new_task.receiver_id = 2
    /\ handled.job.kind = "Damage"

-----------------------------------------------------------------------------
\* C36: a CraftTask whose start emitted CraftStartAction(crafter) emits, in
\* its finish, exactly one CraftEndAction(crafter), as the last Action,
\* also when the crafter has left State or nothing was crafted.  start
\* emits no CraftEndAction and at most one CraftStartAction, finish no
\* CraftStartAction.

OfType(actions, type) == {i \in 1..Len(actions) : actions[i].type = type}

\* The task's start emitted CraftStartAction: then, and only then, it made a job.
CraftStartEmitted == task.type = "Craft" /\ task.job # NoJob

C36_CraftEndMatchesStart ==
    /\ (phase = "started" /\ task.type = "Craft") =>
          /\ OfType(out.actions, "CraftEnd") = {}
          /\ CraftStartEmitted <=> out.actions = <<[type |-> "CraftStart",
                                                      crafter_id |-> task.crafter_id]>>
          /\ ~CraftStartEmitted => out.actions = <<>>
    /\ (phase = "finished" /\ CraftStartEmitted) =>
          /\ out.error = "OK"
          /\ OfType(out.actions, "CraftEnd") = {Len(out.actions)}
          /\ out.actions[Len(out.actions)] = [type |-> "CraftEnd",
                                               crafter_id |-> task.crafter_id]
          /\ OfType(out.actions, "CraftStart") = {}

\* Reached: the crafter left State while the craft was under way.
C36_Witness ==
    /\ phase = "finished"
    /\ CraftStartEmitted
    /\ ~HasEntity(pre, task.crafter_id)
    /\ out.actions = <<[type |-> "CraftEnd", crafter_id |-> task.crafter_id]>>

\* Reached: the craft went through, and the CraftEndAction is the fourth Action.
C36_Crafted ==
    /\ phase = "finished"
    /\ CraftStartEmitted
    /\ Len(out.actions) = 4
    /\ out.actions[1].actors # <<>>

-----------------------------------------------------------------------------
(***************************************************************************)
(* One animation on its own: made from an action, then waited on, ticked, *)
(* expired and asked whether it has expired, in any order.  The answers   *)
(* of expired() are kept, each with the time and the flag it was given    *)
(* under.                                                                  *)
(***************************************************************************)
\* Bounds: the calls of expired(), the times the clock moves, the ticks.
MaxAsks == 3
MaxWaits == 3
MaxAnimTicks == 2

TheAnimation == stage.animations[1]

\* One action of each of the twelve types.
AnimActions ==
    {a \in StageActions :
        /\ a.type \in ActionTypes
        /\ a.type \in {"Movement", "Localize"} => a.actor_id = 0
        /\ a.type = "PickStart" => a.who = 0}

InitAnim ==
    /\ state = EmptyState
    /\ now = 0
    /\ HarnessIdle
    /\ EngineIdle
    /\ geo = NoGeo
    /\ controls = NoControls
    /\ \E action \in AnimActions, at \in {0, 50} :
          stage = [NoStage EXCEPT !.animations = <<animation_from_action(action, at).animation>>,
                                  !.clock = at]

\* animation.expired() is called.
AnimAsk ==
    /\ Len(trace) < MaxAsks
    /\ trace' = Append(trace, [at |-> stage.clock, flag |-> TheAnimation.expired,
                               result |-> Animation_expired(TheAnimation, stage.clock)])
    /\ UNCHANGED <<state, now, harnessVars, jobs, next_serial, expired, cancelled, stale,
                   error, inputs, ticks, clientVars>>

\* The monotonic clock moves on.
AnimWait ==
    /\ stage.ticked < MaxWaits
    /\ \E interval \in {1, 100} :
          stage' = [stage EXCEPT !.clock = @ + interval, !.ticked = @ + 1]
    /\ UNCHANGED <<state, now, harnessVars, engineVars, geo, controls>>

\* animation.tick(interval, scene, world, gui) is called.
AnimTick ==
    /\ stage.added < MaxAnimTicks
    /\ \E interval \in {50} :
          stage' = [stage EXCEPT !.animations = <<tick(TheAnimation)>>,
                                 !.calls = @ \o tick_effects(TheAnimation, interval),
                                 !.added = @ + 1]
    /\ UNCHANGED <<state, now, harnessVars, engineVars, geo, controls>>

\* animation.expire() is called.
AnimExpire ==
    /\ ~TheAnimation.expired
    /\ stage' = [stage EXCEPT !.animations = <<expire(TheAnimation)>>]
    /\ UNCHANGED <<state, now, harnessVars, engineVars, geo, controls>>

NextAnim == AnimAsk \/ AnimWait \/ AnimTick \/ AnimExpire

SpecAnim == InitAnim /\ [][NextAnim]_vars

\* C37: expired() is monotone.  Every answer is true exactly when expire()
\* had been called or the animation has a timeout and start_time + timeout
\* lies before the time of the call; once an answer is true every later one
\* is true; an animation without timeout that was never expire()d is never
\* reported expired.
C37_ExpiredMonotone ==
    /\ \A i \in 1..Len(trace) :
          trace[i].result <=>
             \/ trace[i].flag
             \/ /\ TheAnimation.timeout # None
                /\ TheAnimation.start_time + TheAnimation.timeout < trace[i].at
    /\ \A i, j \in 1..Len(trace) : i < j /\ trace[i].result => trace[j].result
    /\ \A i, j \in 1..Len(trace) : i < j /\ trace[i].flag => trace[j].flag
    /\ (TheAnimation.timeout = None /\ ~TheAnimation.expired) =>
          \A i \in 1..Len(trace) : ~trace[i].result

\* Reached: a MovementAnimation nobody expired answers no at its timeout to
\* the tick, yes after it, and yes again later.
C37_Witness ==
    /\ Len(trace) = 3
    /\ TheAnimation.kind = "MovementAnimation"
    /\ ~TheAnimation.expired
    /\ TheAnimation.start_time + TheAnimation.timeout = trace[1].at
    /\ ~trace[1].result
    /\ trace[2].result
    /\ trace[3].result
    /\ trace[3].at > trace[2].at

\* Reached: an animation without timeout answers no, then yes twice after
\* its tick expired it.
C37_Expired ==
    /\ Len(trace) = 3
    /\ TheAnimation.timeout = None
    /\ ~trace[1].result
    /\ trace[2].result
    /\ trace[3].result

-----------------------------------------------------------------------------
\* C38: every animation but MovementAnimation is one-shot.  In a tick of the
\* world each playing one makes the calls of its effect once and is gone
\* afterwards, so none is ticked twice; a playing one has not expired and
\* has not been ticked.  A MovementAnimation stays over the ticks, never
\* sets its own flag, is dropped by a tick only when start_time + timeout
\* lies before it, and plays 'walk' in its first tick only.

OneShot(animation) == animation.kind # "MovementAnimation"

\* The number of calls one tick of a one-shot animation makes.
EffectSize(kind) ==
    CASE kind = "ConfigurationAnimation" -> 1
      [] kind \in {"CraftStartAnimation", "CraftEndAnimation"} -> 0
      [] kind \in {"CreateActorsAnimation", "DeleteActorsAnimation", "LocalizeAnimation",
                   "DamageAnimation"} -> 2
      [] kind \in {"StatUpdateAnimation", "PickStartAnimation", "PickEndAnimation"} -> 1
      [] kind = "UpdateInventoryAnimation" -> 4

CallsBy(calls, kind) == Cardinality({i \in 1..Len(calls) : calls[i].by = kind})
Playing(animations, kind) ==
    Cardinality({i \in 1..Len(animations) : animations[i].kind = kind})
Movements(animations) == SelectSeq(animations, LAMBDA a : ~OneShot(a))
WalkCalls(calls) ==
    Cardinality({i \in 1..Len(calls) : /\ calls[i].callee = "world.play_animation"
                                        /\ calls[i].args[2] = "walk"})

TickPlayed == stage.last.step = "tick"

C38_MovementOver ==
    /\ stage.last.step = "tick"
    /\ stage.animations = <<>>
    /\ CallsBy(stage.calls, "MovementAnimation") = 1

-----------------------------------------------------------------------------
(***************************************************************************)
(* controls.py: the keyboard controls of the client.  A key is a pair of  *)
(* a symbol and the modifiers left by MOD_MASK.  The dict active_actions  *)
(* is the sequence of its keys in insertion order; the action of a key is *)
(* the one its table gives.                                                *)
(***************************************************************************)
\* pyglet.window.key: a modifiers value is a set of modifier bits.
MOD_SHIFT == {"SHIFT"}
MOD_CTRL == {"CTRL"}
MOD_CAPSLOCK == {"CAPSLOCK"}
MOD_MASK == MOD_CTRL \cup MOD_SHIFT
NOMODS == {}

\* Controls.MOD_MASK & modifiers
Masked(modifiers) == MOD_MASK \cap modifiers

\* The keys of press_actions, release_actions and repeatable_actions.
press_actions ==
    {<<symbol, NOMODS>> :
        symbol \in {"BRACKETLEFT", "BRACKETRIGHT", "PLUS", "NUM_ADD", "MINUS", "NUM_SUBTRACT"}}
release_actions == {}
repeatable_actions ==
    {<<symbol, NOMODS>> :
        symbol \in {"A", "D", "E", "Q", "S", "W", "LEFT", "RIGHT", "UP", "DOWN"}}

\* d[key] = action and del d[key] on the dict of active actions.
DictSet(d, key) == IF key \in SeqToSet(d) THEN d ELSE Append(d, key)
DictDel(d, key) == SelectSeq(d, LAMBDA k : k # key)

\* The call on the world an action makes.
WorldCall(key, interval) == [callee |-> "world", key |-> key, interval |-> interval]

\* Controls.handle_key_press(symbol, modifiers)
handle_key_press(c, symbol, modifiers) ==
    LET key == <<symbol, Masked(modifiers)>>
        c1 == [c EXCEPT !.prev_moment = c.clock,
                        !.calls = <<>>,
                        !.last = [op |-> "press", key |-> key, returned |-> FALSE,
                                  before |-> c.active_actions]]
    IN  IF key \in press_actions THEN [c1 EXCEPT !.calls = <<WorldCall(key, 0)>>]
        ELSE IF key \in repeatable_actions
        THEN [c1 EXCEPT !.active_actions = DictSet(@, key)]
        ELSE c1

\* Controls.handle_key_release(symbol, modifiers): del of a key the dict
\* does not hold raises KeyError.
handle_key_release(c, symbol, modifiers) ==
    LET key == <<symbol, Masked(modifiers)>>
        c1 == [c EXCEPT !.calls = <<>>,
                        !.last = [op |-> "release", key |-> key, returned |-> FALSE,
                                  before |-> c.active_actions]]
    IN  IF key \in release_actions THEN [c1 EXCEPT !.calls = <<WorldCall(key, 0)>>]
        ELSE IF key \in repeatable_actions
        THEN IF key \in SeqToSet(c.active_actions)
             THEN [c1 EXCEPT !.active_actions = DictDel(@, key)]
             ELSE [c1 EXCEPT !.error = "KeyError"]
        ELSE c1

\* Controls.on_draw()
on_draw(c) ==
    LET active == Len(c.active_actions) > 0
    IN  [c EXCEPT
           !.calls = IF c.prev_moment # None /\ c.clock - c.prev_moment > 0
                     THEN [i \in 1..Len(c.active_actions) |->
                             WorldCall(c.active_actions[i], c.clock - c.prev_moment)]
                     ELSE <<>>,
           !.prev_moment = IF active THEN c.clock ELSE None,
           !.last = [op |-> "draw", key |-> <<"none", {}>>, returned |-> active,
                     before |-> c.active_actions]]

\* Bound: the calls made on the controls.
MaxControlOps == 4

\* The keys and modifiers tried: two repeatable keys, a press key, a key of
\* no table; no modifier, shift, caps lock.
Symbols == {"A", "D", "PLUS", "X"}
Modifiers == {NOMODS, MOD_SHIFT, MOD_CAPSLOCK}

\* The monotonic clock at a call: up to a second after the call before.
Later(c) == {[c EXCEPT !.clock = @ + d, !.ops = @ + 1] : d \in {0, 50}}

InitControls ==
    /\ state = EmptyState
    /\ HarnessIdle
    /\ EngineIdle
    /\ ClientIdle

Usable == controls.error = "OK" /\ controls.ops < MaxControlOps

KeyPress ==
    /\ Usable
    /\ \E c \in Later(controls), symbol \in Symbols, modifiers \in Modifiers :
          controls' = [handle_key_press(c, symbol, modifiers) EXCEPT
                          !.held = @ \cup {<<symbol, Masked(modifiers)>>}]
    /\ UNCHANGED <<state, now, harnessVars, engineVars, geo, stage>>

KeyRelease ==
    /\ Usable
    /\ \E c \in Later(controls), symbol \in Symbols, modifiers \in Modifiers :
          controls' = [handle_key_release(c, symbol, modifiers) EXCEPT
                          !.held = @ \ {<<symbol, Masked(modifiers)>>}]
    /\ UNCHANGED <<state, now, harnessVars, engineVars, geo, stage>>

Draw ==
    /\ Usable
    /\ \E c \in Later(controls) : controls' = on_draw(c)
    /\ UNCHANGED <<state, now, harnessVars, engineVars, geo, stage>>

NextControls == KeyPress \/ KeyRelease \/ Draw

SpecControls == InitControls /\ [][NextControls]_vars

\* C39: over every sequence of handle_key_press, handle_key_release and
\* on_draw, with any keys and modifiers, handle_key_release completes
\* without error.
C39_ReleaseCompletes == controls.last.op = "release" => controls.error = "OK"

\* What does hold: as long as no call has raised, active_actions holds
\* exactly the keys of repeatable_actions pressed and not released since;
\* on_draw returns true exactly when it is not empty; after on_draw
\* prev_moment is None exactly when it is empty.  A release raises exactly
\* when its key is repeatable and not active.
C39_ActiveAndDraw ==
    /\ controls.error = "OK" =>
          SeqToSet(controls.active_actions) = controls.held \cap repeatable_actions
    /\ controls.last.op = "draw" =>
          /\ controls.last.returned <=> controls.active_actions # <<>>
          /\ controls.prev_moment = None <=> controls.active_actions = <<>>
          /\ controls.error = "OK"
    /\ controls.last.op = "press" => controls.error = "OK"
    /\ controls.last.op = "release" =>
          (controls.error = "KeyError" <=>
              /\ controls.last.key \in repeatable_actions
              /\ controls.last.key \notin SeqToSet(controls.last.before))

\* Reached: A is pressed while shift is down, shift goes up, A is released:
\* the release raises KeyError.
C39_ShiftedPress ==
    /\ controls.ops = 2
    /\ controls.last.op = "release"
    /\ controls.last.key = <<"A", NOMODS>>
    /\ <<"A", MOD_SHIFT>> \in controls.held
    /\ controls.error = "KeyError"

\* Reached: A is active and is released while shift is down: the release
\* passes, and the action stays active.
C39_StuckKey ==
    /\ controls.last.op = "release"
    /\ controls.last.key = <<"A", MOD_SHIFT>>
    /\ controls.last.before = <<<<"A", NOMODS>>>>
    /\ controls.active_actions = <<<<"A", NOMODS>>>>
    /\ controls.error = "OK"

====
